---- MODULE Spec2Model ----
(***************************************************************************)
(* SideBySideTranslator: the content-script scheduler (imageQueue,         *)
(* processQueue, scanAndTranslate, sendMessageWithRetry), the page DOM it  *)
(* edits, and the background image pipeline (handleImagePipeline with its  *)
(* three fetch tiers and the webRequest interceptors).                     *)
(*                                                                         *)
(* Two builds of the extension are in the repository and both are          *)
(* modelled; `variant` selects one for a whole behaviour:                  *)
(*   "overlay": src/unnamed/part_002 (content) + src/extension/            *)
(*              background.js (Tesseract + NLLB, positioned text layer)    *)
(*   "canvas" : src/unnamed/part_001 (content) + src/unnamed/part_000      *)
(*              (OCR.space + DeepL, redrawn raster)                        *)
(***************************************************************************)
EXTENDS Integers, Sequences, FiniteSets, TLC

\* ---------------------------------------------------------------- bounds
NumImages == 3
MaxTasks == 3
MaxBlocks == 1
NumCallers == 2
MaxLoads == 2
MaxWorkers == 2
MaxRows == 2
MaxLines == 2
MaxRendered == 2
MaxQueued == 2
MaxChanges == 1
MaxScans == 2

\* ------------------------------------------------------ program constants
MAX_CONCURRENT == 1
retries == 5
MinSizeOverlay == 50
MinSizeCanvas == 64
MIN_CONFIDENCE == 30

Variants == {"overlay", "canvas"}
Images == 1..NumImages
TaskIds == 1..MaxTasks
Containers == 0..MaxTasks
PageUrl == "page"
\* msg.pageUrl as the background gets it: the content scripts send
\* window.location.href; the listener takes the field as it comes, so a
\* message without it is received as well
Referrers == {"", PageUrl}

\* Displayed sizes <<width, height>> an image of the document may have: at
\* the threshold min of the build that runs, or one side one pixel below it
Sizes(min) == {<<min - 1, min>>, <<min, min - 1>>, <<min, min>>}

VARIABLES
  variant,          \* which build runs
  size,             \* img.width / img.height of every image
  status,           \* img.dataset.status of every image: "", "queued", "done"
  kids,             \* DOM: children of container c (0 = the images' original parent,
                    \*      t = the wrapper div created for task t)
  border,           \* img.style.border set to the success border
  srcReplaced,      \* img.src was overwritten by the redrawn raster
  imageQueue,       \* the queue of {img, wrapper, overlay} entries
  activeProcessors, \* the scheduler's counter
  tasks,            \* history: every entry ever pushed, in push order (task id = index)
  dispatched,       \* history: task ids in the order processQueue shifted them
  pc,               \* where each task's promise chain / pipeline stands
  attempt,          \* sendMessageWithRetry's loop index i of each task
  trace,            \* history: the pipeline stages started for each task, in order
  failedStep,       \* history: currentStep when the task's pipeline threw, or "none"
  reply,            \* the response the background produced for each task
  tierErr,          \* the errors caught in the fetch chain so far, in order
  surviving,        \* number of blocks that passed the filter (to translate)
  translated,       \* number of translator calls that returned
  blob,             \* the tier (1..3) whose bytes the pipeline holds, 0: none yet
  blobOk,           \* the response those bytes came from had response.ok (TRUE when none)
  listeners,        \* number of webRequest listeners registered, per event
  translator,       \* background: the translator is loaded
  tesseractWorker   \* background: a recognizer worker exists

domVars == <<status, kids, border, srcReplaced>>
schedVars == <<imageQueue, activeProcessors, tasks, dispatched>>
bgVars == <<trace, failedStep, reply, tierErr, blob, blobOk, surviving, translated, listeners,
           translator, tesseractWorker>>
mainVars == <<variant, size, status, kids, border, srcReplaced, imageQueue,
              activeProcessors, tasks, dispatched, pc, attempt, trace, failedStep,
              reply, tierErr, blob, blobOk, surviving, translated, listeners,
              translator, tesseractWorker>>

\* The background's memoized resources are modelled a second time in detail,
\* with several callers at once (specifications TranslatorSpec and OcrSpec);
\* the scheduler model above keeps them as the flags translator /
\* tesseractWorker. The blocks one pipeline run works on, from the
\* recognizer's output to the blocks returned, are modelled in DataSpec; the
\* scheduler model keeps their number only (surviving, translated)
VARIABLES
  translatorRef,     \* background.js `translator`: 0 for null, k for the object load k made
  translatorPromise, \* background.js `translatorPromise`: 0 for null, k for load k's promise
  loadState,         \* each load's async body: "idle", "pipeline", "storing", "resolved", "rejected"
  loads,             \* history: number of loads started so far
  model_downloaded,  \* storage.local "model_downloaded"
  callerPc,          \* each caller of getTranslator: "idle", "checkStorage", "awaiting"
  awaited,           \* the load whose promise the caller awaits, 0: none
  callerGot          \* history: the translator the caller received last, 0: none yet

translatorVars == <<translatorRef, translatorPromise, loadState, loads, model_downloaded,
                    callerPc, awaited, callerGot>>

VARIABLES
  workerRef,            \* background.js `tesseractWorker`: 0 for null, w for worker w
  currentTesseractLang, \* background.js `currentTesseractLang`: "" for null
  alive,                \* the recognizer workers that exist (created, not terminated)
  workerLang,           \* the language each worker was created for, "" if never created
  made,                 \* history: number of workers created so far
  ocrPc,                \* each pipeline at its OCR steps: "idle", "terminating",
                        \* "preflight", "creating" (inside initOCR), "recognizing"
  ocrLang,              \* tessLang of the call
  ocrTarget             \* the worker whose terminate() or recognize() the pipeline
                        \* awaits, 0: none

ocrVars == <<workerRef, currentTesseractLang, alive, workerLang, made, ocrPc, ocrLang,
             ocrTarget>>

VARIABLES
  sourceLang,        \* msg.sourceLang of the run
  data,              \* what the recognizer returned: [lines, words, blocks, tsv], tsv
                     \* being [header, rows]
  ocrBlocks,         \* the blocks the loop runs over (part_000: `blocks`)
  cursor,            \* index in ocrBlocks of the block whose translation is awaited
  translatedBlocks,  \* the blocks collected for the reply
  calls,             \* history: per translator call, the indices of the blocks passed
  skipped,           \* the loop's counters skippedLowConfidence, skippedNoText, skippedNoBbox
  dataPc             \* "recognized", "translating", "returned", "failed"

dataVars == <<sourceLang, data, ocrBlocks, cursor, translatedBlocks, calls, skipped, dataPc>>

\* Where the content script puts the blocks of a reply is modelled in
\* RenderSpec; the scheduler model keeps the nodes it adds to the document
VARIABLES
  imgNative,         \* <<response.imgWidth, response.imgHeight>>
  regions,           \* per block of the reply, the rectangle shown over the image, in CSS px
  renderPc           \* "idle", "replied", "rendered"

renderVars == <<imgNative, regions, renderPc>>

\* Which languages a task is processed with is modelled in LangSpec, from the
\* popup's form to the translator's parameters; the scheduler model keeps the
\* queue's images only
VARIABLES
  stored,            \* storage.local[domain]: NoSettings or [source, target, auto]
  selects,           \* popup: the values of sourceLang, targetLang, autoTranslate
  changes,           \* history: number of change events of the popup's form
  loadPc,            \* the content script's storage.local.get at load: "loading", "loaded"
  present,           \* the img elements in the document
  passed,            \* history: per image, the settings of the scanAndTranslate
                     \* call that pushed it, NoSettings if none did
  langQueue,         \* imageQueue as {img, settings} entries
  langActive,        \* activeProcessors
  sent,              \* history: the PROCESS_IMAGE messages sent, in order
  translateParams    \* history: the translateParams built, one per message, in order

langVars == <<stored, selects, changes, loadPc, present, passed, langQueue,
              langActive, sent, translateParams>>

\* One task's PROCESS_IMAGE message between sendMessageWithRetry and the
\* background's listener is modelled in SendSpec, with a background that may
\* stop and start again; the scheduler model keeps the rejections of a
\* message nobody received
VARIABLES
  sendPc,            \* sendMessageWithRetry: "idle", "sending", "waiting" (setTimeout),
                     \* "resolved", "thrown"
  sendI,             \* its loop index i
  delivered,         \* the listener got the message of the attempt in flight
  listening,         \* the background runs and has its onMessage listener
  runs,              \* history: per handleImagePipeline call for the task, "running",
                     \* "returned", "threw", or "gone" (stopped with the background)
  response           \* what the attempt in flight was answered, NoResponse if nothing

sendVars == <<sendPc, sendI, delivered, listening, runs, response>>

\* The two content scripts side by side on one document, with the same scans
\* and the same answers of the background, are modelled in PairSpec
VARIABLES
  pairSize,          \* img.width / img.height of every image of the document
  pairAnswer,        \* per image, what the background answers for it: "blocks",
                     \* "empty" (success without blocks), "error"
  pairScans,         \* history: number of scans so far
  built              \* per build: [status, queue, active, dispatched]

pairVars == <<pairSize, pairAnswer, pairScans, built>>
detailVars == <<translatorVars, ocrVars, dataVars, renderVars, langVars, sendVars, pairVars>>
outsideTranslator == <<mainVars, ocrVars, dataVars, renderVars, langVars, sendVars, pairVars>>
outsideOcr == <<mainVars, translatorVars, dataVars, renderVars, langVars, sendVars, pairVars>>
vars == <<mainVars, detailVars>>

\* ------------------------------------------------------------ DOM helpers
ImgNode(i) == [kind |-> "img", id |-> i]
WrapperNode(t) == [kind |-> "wrapper", id |-> t]
IndicatorNode(t) == [kind |-> "indicator", id |-> t]
TextNode(t, k) == [kind |-> "text", id |-> <<t, k>>]

InSeq(x, s) == \E p \in 1..Len(s) : s[p] = x
IndexOf(x, s) == CHOOSE p \in 1..Len(s) : s[p] = x
Without(s, x) == SelectSeq(s, LAMBDA y : y # x)

\* node.parentNode: the container holding the node, or -1 when it is detached
parentNode(k, node) ==
  IF \E c \in Containers : InSeq(node, k[c])
  THEN CHOOSE c \in Containers : InSeq(node, k[c])
  ELSE -1

\* parent.insertBefore(node, ref): node leaves its old parent and is put
\* right before ref
insertBefore(k, c, node, ref) ==
  LET k1 == [d \in Containers |-> Without(k[d], node)]
      p == IndexOf(ref, k1[c])
  IN [k1 EXCEPT ![c] = SubSeq(k1[c], 1, p - 1) \o <<node>> \o SubSeq(k1[c], p, Len(k1[c]))]

\* parent.appendChild(node)
appendChild(k, c, node) ==
  LET k1 == [d \in Containers |-> Without(k[d], node)]
  IN [k1 EXCEPT ![c] = Append(k1[c], node)]

\* node.remove(): the node leaves its parent; a wrapper takes its subtree out
\* of the document with it
removeNode(k, node) ==
  [d \in Containers |->
     IF node.kind = "wrapper" /\ d = node.id THEN <<>> ELSE Without(k[d], node)]

\* document.querySelectorAll("img"): the images attached to the document, in
\* document order
RECURSIVE querySelectorAllImg(_, _)
querySelectorAllImg(k, nodes) ==
  IF nodes = <<>> THEN <<>>
  ELSE LET n == Head(nodes)
       IN (CASE n.kind = "img" -> <<n.id>>
             [] n.kind = "wrapper" -> querySelectorAllImg(k, k[n.id])
             [] OTHER -> <<>>) \o querySelectorAllImg(k, Tail(nodes))

\* --------------------------------------------------- content script: state
MinSize == IF variant = "overlay" THEN MinSizeOverlay ELSE MinSizeCanvas

\* an error message: kind says what failed, tier which fetch tier threw it
\* (0: not an error of the fetch chain)
Err(kind) == [tier |-> 0, kind |-> kind]

NoReply == [success |-> FALSE, blocks |-> 0, error |-> [step |-> "", detail |-> Err("unset")]]

Entry(i, t) == [img |-> i, wrapper |-> t, overlay |-> t]
StartedIds(started) == [p \in 1..Len(started) |-> started[p].wrapper]
IsStarted(started, t) == \E p \in 1..Len(started) : started[p].wrapper = t

\* ------------------------------------------------ content script: scheduler
limitNever(a) == FALSE

\* processQueue's early return: the concurrency limit is reached
limitReached(a) == a >= MAX_CONCURRENT

popQueue(q) == [item |-> q[Len(q)], rest |-> SubSeq(q, 1, Len(q) - 1)]

\* imageQueue.shift(): the entry taken and what stays queued
shiftQueue(q) == [item |-> Head(q), rest |-> Tail(q)]

\* processQueue without its activeProcessors++
processQueueUncounted(q, a) ==
  IF limitReached(a) \/ Len(q) = 0
  THEN [queue |-> q, active |-> a, started |-> <<>>]
  ELSE [queue |-> shiftQueue(q).rest, active |-> a,
        started |-> <<shiftQueue(q).item>>]

\* processQueue(): at most one entry is shifted per call; its message is sent
\* synchronously (sendMessageWithRetry runs up to its first await)
processQueue(q, a) ==
  IF limitReached(a) \/ Len(q) = 0
  THEN [queue |-> q, active |-> a, started |-> <<>>]
  ELSE [queue |-> shiftQueue(q).rest, active |-> a + 1,
        started |-> <<shiftQueue(q).item>>]

\* the scheduler variables after a handler that ends in processQueue();
\* q, a: queue and counter before the call, pcAfter: pc before the call
RunProcessQueue(q, a, pcAfter) ==
  LET r == processQueue(q, a)
  IN /\ imageQueue' = r.queue
     /\ activeProcessors' = r.active
     /\ dispatched' = dispatched \o StartedIds(r.started)
     /\ pc' = [t \in TaskIds |-> IF IsStarted(r.started, t) THEN "Sending" ELSE pcAfter[t]]
     /\ attempt' = [t \in TaskIds |->
                      IF IsStarted(r.started, t) \/ pcAfter[t] \in {"done", "failed"}
                      THEN 0 ELSE attempt[t]]

skipImageAnyStatus(w, h, st, min) == w < min \/ h < min

skipImageAnyHeight(w, h, st, min) == w < min \/ st # ""

\* scanAndTranslate's filter: small or already marked images are skipped
skipImage(w, h, st, min) == w < min \/ h < min \/ st # ""

\* scanAndTranslate's forEach over the images found, st = [kids, status, queue, tasks]
RECURSIVE scanLoop(_, _)
scanLoop(imgs, st) ==
  IF imgs = <<>> THEN st
  ELSE LET i == Head(imgs)
       IN IF skipImage(size[i][1], size[i][2], st.status[i], MinSize)
          THEN scanLoop(Tail(imgs), st)
          ELSE LET t == Len(st.tasks) + 1
                   k1 == insertBefore(st.kids, parentNode(st.kids, ImgNode(i)),
                                      WrapperNode(t), ImgNode(i))
                   k2 == appendChild(k1, t, ImgNode(i))
                   k3 == appendChild(k2, t, IndicatorNode(t))
               IN scanLoop(Tail(imgs),
                           [kids |-> k3,
                            status |-> [st.status EXCEPT ![i] = "queued"],
                            queue |-> Append(st.queue, Entry(i, t)),
                            tasks |-> Append(st.tasks, Entry(i, t))])

\* the images a scan would enqueue now
Enqueueable == {i \in Images : ~skipImage(size[i][1], size[i][2], status[i], MinSize)}

\* scanAndTranslate(settings): auto-run on load or START_SCAN from the popup
scanAndTranslate ==
  /\ Len(tasks) + Cardinality(Enqueueable) <= MaxTasks
  /\ LET st == scanLoop(querySelectorAllImg(kids, kids[0]),
                        [kids |-> kids, status |-> status,
                         queue |-> imageQueue, tasks |-> tasks])
     IN /\ kids' = st.kids
        /\ status' = st.status
        /\ tasks' = st.tasks
        /\ RunProcessQueue(st.queue, activeProcessors,
                           [t \in TaskIds |->
                              IF t > Len(tasks) /\ t <= Len(st.tasks) THEN "queued" ELSE pc[t]])
  /\ UNCHANGED detailVars
  /\ UNCHANGED <<variant, size, border, srcReplaced>>
  /\ UNCHANGED bgVars

unwrapAppend(k, e) ==
  IF parentNode(k, ImgNode(e.img)) = e.wrapper
  THEN removeNode(appendChild(k, parentNode(k, WrapperNode(e.wrapper)), ImgNode(e.img)),
                  WrapperNode(e.wrapper))
  ELSE k

\* the unwrap in processQueue's catch: the image goes back before its wrapper
\* and the wrapper is removed, when the image is still the wrapper's child
unwrap(k, e) ==
  IF parentNode(k, ImgNode(e.img)) = e.wrapper
  THEN removeNode(insertBefore(k, parentNode(k, WrapperNode(e.wrapper)),
                               ImgNode(e.img), WrapperNode(e.wrapper)),
                  WrapperNode(e.wrapper))
  ELSE k

\* processQueue's .catch handler on the DOM: [status, kids] afterwards
catchHandler(e, st, k) ==
  [status |-> [st EXCEPT ![e.img] = ""],
   kids |-> unwrap(removeNode(k, IndicatorNode(e.overlay)), e)]

\* the call frame of handleImagePipeline for task t is gone once its reply was
\* handled: its locals (and the history kept about them) are dropped
DropFrame(t) ==
  /\ trace' = [trace EXCEPT ![t] = <<>>]
  /\ failedStep' = [failedStep EXCEPT ![t] = "none"]
  /\ reply' = [reply EXCEPT ![t] = NoReply]
  /\ tierErr' = [tierErr EXCEPT ![t] = <<>>]
  /\ blob' = [blob EXCEPT ![t] = 0]
  /\ blobOk' = [blobOk EXCEPT ![t] = TRUE]
  /\ surviving' = [surviving EXCEPT ![t] = 0]
  /\ translated' = [translated EXCEPT ![t] = 0]
  /\ UNCHANGED <<listeners, translator, tesseractWorker>>

\* .catch then .finally on a DOM that the .then handler left as k
FailTaskOn(t, k) ==
  LET c == catchHandler(tasks[t], status, k)
  IN /\ status' = c.status
     /\ kids' = c.kids
     /\ RunProcessQueue(imageQueue, activeProcessors - 1, [pc EXCEPT ![t] = "failed"])
     /\ UNCHANGED tasks

\* ------------------------------------------ content script: message retry
lastAttemptFirst(i) == i = 0

\* sendMessageWithRetry's test in its catch: the attempt that failed was the
\* last one of the loop
lastAttempt(i) == i = retries - 1

\* browser.runtime.sendMessage rejects (no receiving end); the loop waits and
\* sends again, or rethrows on the last attempt
SendRejected(t) ==
  /\ pc[t] = "Sending"
  /\ IF lastAttempt(attempt[t])
     THEN /\ FailTaskOn(t, kids)
          /\ UNCHANGED <<border, srcReplaced>>
     ELSE /\ pc' = [pc EXCEPT ![t] = "RetryWait"]
          /\ UNCHANGED attempt
          /\ UNCHANGED domVars
          /\ UNCHANGED schedVars
  /\ UNCHANGED detailVars
  /\ UNCHANGED <<variant, size>>
  /\ UNCHANGED bgVars

\* the setTimeout(delay) between two attempts fires, the next attempt is sent
RetryTimer(t) ==
  /\ pc[t] = "RetryWait"
  /\ pc' = [pc EXCEPT ![t] = "Sending"]
  /\ attempt' = [attempt EXCEPT ![t] = attempt[t] + 1]
  /\ UNCHANGED detailVars
  /\ UNCHANGED <<variant, size>>
  /\ UNCHANGED domVars
  /\ UNCHANGED schedVars
  /\ UNCHANGED bgVars

\* an answer to a failure that carries no message
errorReplyNoMessage(step, detail) ==
  [success |-> FALSE, blocks |-> 0, error |-> [step |-> "", detail |-> Err("")]]

\* ------------------------------------------------- background: pipeline
\* what the PROCESS_IMAGE listener answers when handleImagePipeline fails in
\* currentStep = step with message detail: background.js rethrows
\* `[step] detail` and the listener's catch turns it into the reply; part_000
\* replies e.message as it is
errorReply(step, detail) ==
  [success |-> FALSE, blocks |-> 0,
   error |-> [step |-> IF variant = "overlay" THEN step ELSE "", detail |-> detail]]

successReply(n) == [success |-> TRUE, blocks |-> n, error |-> [step |-> "", detail |-> Err("")]]

ThrowSwallowed(t, step, detail) ==
  /\ pc' = pc
  /\ reply' = reply
  /\ failedStep' = [failedStep EXCEPT ![t] = step]

\* the pipeline of task t throws in step: nothing else of it runs, the reply
\* is on its way to the content script
Throw(t, step, detail) ==
  /\ pc' = [pc EXCEPT ![t] = "Replied"]
  /\ reply' = [reply EXCEPT ![t] = errorReply(step, detail)]
  /\ failedStep' = [failedStep EXCEPT ![t] = step]

\* the pipeline of task t returns its result with n translated blocks
Return(t, n) ==
  /\ pc' = [pc EXCEPT ![t] = "Replied"]
  /\ reply' = [reply EXCEPT ![t] = successReply(n)]
  /\ failedStep' = failedStep

\* outcomes of the two addListener calls of fetchImageWithReferrer
RegOutcomes == {"ok", "throw1", "throw2"}
FetchFailures == {"network", "status"}

\* webRequest.<event>.addListener / removeListener of one listener function
addListener(lst, event) == [lst EXCEPT ![event] = lst[event] + 1]
removeListener(lst, event) == [lst EXCEPT ![event] = lst[event] - 1]

\* fetchImageWithReferrer up to its first await: without a referrer a plain
\* fetch; otherwise the two addListener calls, which come before the try
\* block, then the fetch. [listeners, threw]
fetchImageWithReferrerStart(referrer, reg, lst) ==
  IF referrer = "" THEN [listeners |-> lst, threw |-> FALSE]
  ELSE CASE reg = "throw1" -> [listeners |-> lst, threw |-> TRUE]
         [] reg = "throw2" ->
              [listeners |-> addListener(lst, "onBeforeSendHeaders"), threw |-> TRUE]
         [] OTHER ->
              [listeners |-> addListener(addListener(lst, "onBeforeSendHeaders"),
                                         "onHeadersReceived"),
               threw |-> FALSE]

\* fetchImageWithReferrer's finally block (not reached by the plain fetch)
removeListeners(referrer, lst) ==
  IF referrer = "" THEN lst
  ELSE removeListener(removeListener(lst, "onBeforeSendHeaders"), "onHeadersReceived")

nextTierAgain(tier) == "Tier2"

\* the pc a failed tier leads to: the catch of tier 1 starts the direct fetch,
\* the catch of the direct fetch starts the relayed fetch
nextTier(tier) == IF tier = 1 THEN "Tier2" ELSE "Tier3"
tierNameLast(p) == "tier3"
tierName(p) == CASE p = "Tier1" -> "tier1" [] p = "Tier2" -> "tier2" [] OTHER -> "tier3"

fetchChainErrorFirst(errs) == errs[1]

\* the error that leaves the fetch chain when fetchImageViaContent throws:
\* errs are the errors of the tiers in the order they failed
fetchChainError(errs) == errs[Len(errs)]

\* currentStep = "Fetching Image": the chain starts with tier 1
BeginFetch(t, referrer, reg, tr) ==
  LET r == fetchImageWithReferrerStart(referrer, reg, listeners)
  IN /\ referrer = "" => reg = "ok"
     /\ listeners' = r.listeners
     /\ IF r.threw
        THEN /\ pc' = [pc EXCEPT ![t] = nextTier(1)]
             /\ trace' = [trace EXCEPT ![t] = tr \o <<"tier1", tierName(nextTier(1))>>]
             /\ tierErr' = [tierErr EXCEPT ![t] = <<[tier |-> 1, kind |-> "addListener"]>>]
        ELSE /\ pc' = [pc EXCEPT ![t] = IF referrer = "" THEN "Tier1Plain" ELSE "Tier1"]
             /\ trace' = [trace EXCEPT ![t] = tr \o <<"tier1">>]
             /\ tierErr' = [tierErr EXCEPT ![t] = <<>>]

\* the stage after a successful fetch: createImageBitmap (background.js), or
\* compressImage and blobToBase64 (part_000)
afterFetchPc == IF variant = "overlay" THEN "CreatingBitmap" ELSE "Compressing"
afterFetchStep == IF variant = "overlay" THEN "Creating Bitmap" ELSE "Compressing Image"

\* PROCESS_IMAGE reaches the background listener, handleImagePipeline runs up
\* to its first await. The reply to a delivered message ends
\* sendMessageWithRetry, so its loop index is dead from here on and is reset
BgReceive(t) ==
  /\ pc[t] = "Sending"
  /\ IF variant = "overlay"
     THEN /\ pc' = [pc EXCEPT ![t] = "LoadingTranslator"]
          /\ trace' = [trace EXCEPT ![t] = <<"Loading Translator">>]
          /\ UNCHANGED <<listeners, tierErr>>
     ELSE \E referrer \in Referrers, reg \in RegOutcomes : BeginFetch(t, referrer, reg, <<>>)
  /\ attempt' = [attempt EXCEPT ![t] = 0]
  /\ UNCHANGED detailVars
  /\ UNCHANGED <<variant, size, failedStep, reply, blob, blobOk, surviving, translated,
                 translator, tesseractWorker>>
  /\ UNCHANGED domVars
  /\ UNCHANGED schedVars

\* await getTranslator() settles (background.js)
LoadTranslatorDone(t, ok) ==
  /\ pc[t] = "LoadingTranslator"
  /\ translator => ok
  /\ IF ok
     THEN /\ translator' = TRUE
          /\ \E referrer \in Referrers, reg \in RegOutcomes :
               BeginFetch(t, referrer, reg, trace[t])
          /\ UNCHANGED <<reply, failedStep>>
     ELSE /\ Throw(t, "Loading Translator", Err("model"))
          /\ UNCHANGED <<translator, trace, tierErr, listeners>>
  /\ UNCHANGED detailVars
  /\ UNCHANGED <<variant, size, attempt, blob, blobOk, surviving, translated,
                 tesseractWorker>>
  /\ UNCHANGED domVars
  /\ UNCHANGED schedVars

\* tier served the bytes: blob is assigned, the caught errors go out of
\* scope and the stage after the fetch chain starts
BeginAfterFetch(t, tier, ok) ==
  /\ blob' = [blob EXCEPT ![t] = tier]
  /\ blobOk' = [blobOk EXCEPT ![t] = ok]
  /\ pc' = [pc EXCEPT ![t] = afterFetchPc]
  /\ trace' = [trace EXCEPT ![t] = trace[t] \o <<afterFetchStep>>]
  /\ tierErr' = [tierErr EXCEPT ![t] = <<>>]
  /\ UNCHANGED <<reply, failedStep>>

\* a tier that failed with error kind: the next tier starts
FallBack(t, tier, kind) ==
  /\ pc' = [pc EXCEPT ![t] = nextTier(tier)]
  /\ trace' = [trace EXCEPT ![t] = trace[t] \o <<tierName(nextTier(tier))>>]
  /\ tierErr' = [tierErr EXCEPT ![t] = Append(tierErr[t], [tier |-> tier, kind |-> kind])]
  /\ UNCHANGED <<reply, failedStep, blob, blobOk>>

\* tier 1: the referrer-spoofed fetch settles; the finally block removes the
\* interceptors
Tier1Done(t, out) ==
  /\ pc[t] = "Tier1"
  /\ listeners' = removeListeners(PageUrl, listeners)
  /\ IF out = "ok" THEN BeginAfterFetch(t, 1, TRUE) ELSE FallBack(t, 1, out)
  /\ UNCHANGED detailVars
  /\ UNCHANGED <<variant, size, attempt, surviving, translated, translator,
                 tesseractWorker>>
  /\ UNCHANGED domVars
  /\ UNCHANGED schedVars

\* tier 1 without a referrer: `(await fetch(url)).blob()` settles. A rejected
\* fetch throws; a response is read whatever its status, response.ok is not
\* looked at
Tier1PlainDone(t, out) ==
  /\ pc[t] = "Tier1Plain"
  /\ IF out = "network" THEN FallBack(t, 1, out) ELSE BeginAfterFetch(t, 1, out = "ok")
  /\ UNCHANGED detailVars
  /\ UNCHANGED <<variant, size, attempt, surviving, translated, listeners,
                 translator, tesseractWorker>>
  /\ UNCHANGED domVars
  /\ UNCHANGED schedVars

\* tier 2: the direct fetch settles
Tier2Done(t, out) ==
  /\ pc[t] = "Tier2"
  /\ IF out = "ok" THEN BeginAfterFetch(t, 2, TRUE) ELSE FallBack(t, 2, out)
  /\ UNCHANGED detailVars
  /\ UNCHANGED <<variant, size, attempt, surviving, translated, listeners,
                 translator, tesseractWorker>>
  /\ UNCHANGED domVars
  /\ UNCHANGED schedVars

\* tier 3: browserAPI.tabs.sendMessage(FETCH_IMAGE) settles: the content
\* script answered with the bytes ("ok"), answered {ok: false} because its
\* fetch met a network error or a non-success status, or the send was rejected
\* ("reject")
Tier3Done(t, out) ==
  /\ pc[t] = "Tier3"
  /\ IF out = "ok"
     THEN BeginAfterFetch(t, 3, TRUE)
     ELSE /\ Throw(t, "Fetching Image",
                   fetchChainError(Append(tierErr[t], [tier |-> 3, kind |-> out])))
          /\ tierErr' = [tierErr EXCEPT ![t] = Append(tierErr[t], [tier |-> 3, kind |-> out])]
          /\ UNCHANGED <<trace, blob, blobOk>>
  /\ UNCHANGED detailVars
  /\ UNCHANGED <<variant, size, attempt, surviving, translated, listeners,
                 translator, tesseractWorker>>
  /\ UNCHANGED domVars
  /\ UNCHANGED schedVars

\* await createImageBitmap(blob) settles (background.js, step "Creating
\* Bitmap"); then initOCR is awaited
BitmapDone(t, ok) ==
  /\ pc[t] = "CreatingBitmap"
  /\ IF ok
     THEN /\ pc' = [pc EXCEPT ![t] = "InitOCR"]
          /\ trace' = [trace EXCEPT ![t] = trace[t] \o <<"Initializing OCR">>]
          /\ UNCHANGED <<reply, failedStep>>
     ELSE /\ Throw(t, "Creating Bitmap", Err("bitmap"))
          /\ UNCHANGED trace
  /\ UNCHANGED detailVars
  /\ UNCHANGED <<variant, size, attempt, tierErr, blob, blobOk, surviving, translated,
                 listeners,
                 translator, tesseractWorker>>
  /\ UNCHANGED domVars
  /\ UNCHANGED schedVars

\* await initOCR(lang) settles (background.js): an existing worker is reused,
\* creating one may fail; then worker.recognize is awaited
InitOCRDone(t, ok) ==
  /\ pc[t] = "InitOCR"
  /\ tesseractWorker => ok
  /\ IF ok
     THEN /\ tesseractWorker' = TRUE
          /\ pc' = [pc EXCEPT ![t] = "RunningOCR"]
          /\ trace' = [trace EXCEPT ![t] = trace[t] \o <<"Running OCR">>]
          /\ UNCHANGED <<reply, failedStep>>
     ELSE /\ Throw(t, "Initializing OCR", Err("Tesseract initialization failed"))
          /\ UNCHANGED <<trace, tesseractWorker>>
  /\ UNCHANGED detailVars
  /\ UNCHANGED <<variant, size, attempt, tierErr, blob, blobOk, surviving, translated,
                 listeners,
                 translator>>
  /\ UNCHANGED domVars
  /\ UNCHANGED schedVars

\* compressImage and blobToBase64 settle (part_000, step "Compressing Image");
\* then callOcrApi is awaited
CompressDone(t, ok) ==
  /\ pc[t] = "Compressing"
  /\ IF ok
     THEN /\ pc' = [pc EXCEPT ![t] = "RunningOCR"]
          /\ trace' = [trace EXCEPT ![t] = trace[t] \o <<"Running OCR">>]
          /\ UNCHANGED <<reply, failedStep>>
     ELSE /\ Throw(t, "Compressing Image", Err("compress"))
          /\ UNCHANGED trace
  /\ UNCHANGED detailVars
  /\ UNCHANGED <<variant, size, attempt, tierErr, blob, blobOk, surviving, translated,
                 listeners,
                 translator, tesseractWorker>>
  /\ UNCHANGED domVars
  /\ UNCHANGED schedVars

\* the recognizer settles: it failed (n = -1) or left n blocks to translate.
\* With no block the pipeline returns success with an empty list; otherwise
\* the first translator call (background.js) or the one DeepL call (part_000)
\* is awaited in step "Translating"
OCRDone(t, n) ==
  /\ pc[t] = "RunningOCR"
  /\ IF n = -1
     THEN /\ Throw(t, "Running OCR", Err("ocr"))
          /\ UNCHANGED <<trace, surviving, translated>>
     ELSE /\ surviving' = [surviving EXCEPT ![t] = n]
          /\ translated' = [translated EXCEPT ![t] = 0]
          /\ trace' = [trace EXCEPT ![t] =
                         IF variant = "canvas" /\ n = 0 THEN trace[t]
                         ELSE trace[t] \o <<"Translating">>]
          /\ IF n = 0
             THEN Return(t, 0)
             ELSE /\ pc' = [pc EXCEPT ![t] = "Translating"]
                  /\ UNCHANGED <<reply, failedStep>>
  /\ UNCHANGED detailVars
  /\ UNCHANGED <<variant, size, attempt, tierErr, blob, blobOk, listeners, translator,
                 tesseractWorker>>
  /\ UNCHANGED domVars
  /\ UNCHANGED schedVars

\* a translator call settles. background.js calls the translator once per
\* block and returns after the last one; part_000 makes one call for all
\* blocks and then awaits createImageBitmap, still in step "Translating"
TranslateDone(t, ok) ==
  /\ pc[t] = "Translating"
  /\ IF ~ok
     THEN /\ Throw(t, "Translating", Err("translate"))
          /\ UNCHANGED translated
     ELSE IF variant = "canvas"
          THEN /\ translated' = [translated EXCEPT ![t] = surviving[t]]
               /\ pc' = [pc EXCEPT ![t] = "FinalBitmap"]
               /\ UNCHANGED <<reply, failedStep>>
          ELSE /\ translated' = [translated EXCEPT ![t] = translated[t] + 1]
               /\ IF translated[t] + 1 = surviving[t]
                  THEN Return(t, surviving[t])
                  ELSE UNCHANGED <<pc, reply, failedStep>>
  /\ UNCHANGED detailVars
  /\ UNCHANGED <<variant, size, attempt, trace, tierErr, blob, blobOk, surviving, listeners,
                 translator, tesseractWorker>>
  /\ UNCHANGED domVars
  /\ UNCHANGED schedVars

\* part_000: the createImageBitmap that measures the image settles
FinalBitmapDone(t, ok) ==
  /\ pc[t] = "FinalBitmap"
  /\ IF ok THEN Return(t, surviving[t]) ELSE Throw(t, "Translating", Err("bitmap"))
  /\ UNCHANGED detailVars
  /\ UNCHANGED <<variant, size, attempt, trace, tierErr, blob, blobOk, surviving, translated,
                 listeners, translator, tesseractWorker>>
  /\ UNCHANGED domVars
  /\ UNCHANGED schedVars

\* ------------------------------------------- content script: reply, render
\* overlayTranslations (part_002) after n blocks: a positioned div per block
\* is appended to the image's parent element
overlayTranslations(k, e, n) ==
  LET c == parentNode(k, ImgNode(e.img))
  IN [k EXCEPT ![c] = k[c] \o [j \in 1..n |-> TextNode(e.wrapper, j)]]

\* part_001's unwrap after a successful redraw: the image's current parent is
\* replaced by the image when it is a wrapper (style.position "relative")
unwrapDone(k, e) ==
  LET w == parentNode(k, ImgNode(e.img))
  IN IF w > 0
     THEN removeNode(insertBefore(k, parentNode(k, WrapperNode(w)),
                                  ImgNode(e.img), WrapperNode(w)),
                     WrapperNode(w))
     ELSE k

\* the .then handler of processQueue runs on the background's response.
\* thrown: the number of divs overlayTranslations appended before it threw,
\* or -1 when it did not throw
HandleReply(t, thrown) ==
  /\ pc[t] = "Replied"
  /\ thrown < reply[t].blocks
  /\ LET e == tasks[t]
         ok == reply[t].success /\ reply[t].blocks > 0
     IN IF ~ok
        THEN /\ thrown = -1
             /\ FailTaskOn(t, kids)
             /\ UNCHANGED <<border, srcReplaced>>
        ELSE IF variant = "canvas"
             THEN /\ thrown = -1
                  /\ pc' = [pc EXCEPT ![t] = "Rendering"]
                  /\ UNCHANGED <<attempt>>
                  /\ UNCHANGED domVars
                  /\ UNCHANGED schedVars
             ELSE IF thrown >= 0
                  THEN /\ FailTaskOn(t, overlayTranslations(kids, e, thrown))
                       /\ UNCHANGED <<border, srcReplaced>>
                  ELSE /\ kids' = removeNode(overlayTranslations(kids, e, reply[t].blocks),
                                             IndicatorNode(e.overlay))
                       /\ border' = [border EXCEPT ![e.img] = TRUE]
                       /\ status' = [status EXCEPT ![e.img] = "done"]
                       /\ RunProcessQueue(imageQueue, activeProcessors - 1,
                                          [pc EXCEPT ![t] = "done"])
                       /\ UNCHANGED <<srcReplaced, tasks>>
  /\ UNCHANGED detailVars
  /\ UNCHANGED <<variant, size>>
  /\ DropFrame(t)

\* part_001: image.onload of replaceImageWithTranslation runs to its end, the
\* promise resolves and the .then/.finally handlers run
RenderLoaded(t) ==
  /\ pc[t] = "Rendering"
  /\ LET e == tasks[t]
     IN /\ srcReplaced' = [srcReplaced EXCEPT ![e.img] = TRUE]
        /\ border' = [border EXCEPT ![e.img] = TRUE]
        /\ status' = [status EXCEPT ![e.img] = "done"]
        /\ kids' = unwrapDone(removeNode(kids, IndicatorNode(e.overlay)), e)
  /\ RunProcessQueue(imageQueue, activeProcessors - 1, [pc EXCEPT ![t] = "done"])
  /\ UNCHANGED detailVars
  /\ UNCHANGED <<variant, size, tasks>>
  /\ UNCHANGED bgVars

\* part_001: the image of replaceImageWithTranslation does not load, or its
\* onload handler throws: no onerror handler and no reject, so the promise
\* never settles
RenderStuck(t) ==
  /\ pc[t] = "Rendering"
  /\ pc' = [pc EXCEPT ![t] = "Hung"]
  /\ UNCHANGED detailVars
  /\ UNCHANGED <<variant, size, attempt>>
  /\ UNCHANGED domVars
  /\ UNCHANGED schedVars
  /\ UNCHANGED bgVars

Callers == 1..NumCallers
Loads == 1..MaxLoads

\* background.js at start: nothing loaded, no load started
TranslatorStart ==
  /\ translatorRef = 0
  /\ translatorPromise = 0
  /\ loadState = [k \in Loads |-> "idle"]
  /\ loads = 0
  /\ callerPc = [c \in Callers |-> "idle"]
  /\ awaited = [c \in Callers |-> 0]
  /\ callerGot = [c \in Callers |-> 0]

OcrCalls == 1..NumCallers
Workers == 1..MaxWorkers
\* the values of tesseractLangMap used: two different recognizer languages
TessLangs == {"eng", "jpn"}

\* background.js at start: no recognizer worker
OcrStart ==
  /\ workerRef = 0
  /\ currentTesseractLang = ""
  /\ alive = {}
  /\ workerLang = [w \in Workers |-> ""]
  /\ made = 0
  /\ ocrPc = [i \in OcrCalls |-> "idle"]
  /\ ocrLang = [i \in OcrCalls |-> ""]
  /\ ocrTarget = [i \in OcrCalls |-> 0]

\* a recognizer result without content
NoTsv == [header |-> {}, rows |-> <<>>]
NoData == [lines |-> <<>>, words |-> <<>>, blocks |-> <<>>, tsv |-> NoTsv]

\* the three counters before the loop
NoSkips == [skippedLowConfidence |-> 0, skippedNoText |-> 0, skippedNoBbox |-> 0]

\* no pipeline run is looked at block by block
DataStart ==
  /\ sourceLang = "en"
  /\ data = NoData
  /\ ocrBlocks = <<>>
  /\ cursor = 0
  /\ translatedBlocks = <<>>
  /\ calls = <<>>
  /\ skipped = NoSkips
  /\ dataPc = "returned"

\* no reply is being rendered
RenderStart ==
  /\ imgNative = <<1, 1>>
  /\ regions = <<>>
  /\ renderPc = "idle"

\* no answer
NoResponse == [kind |-> "none", success |-> FALSE, blocks |-> FALSE, error |-> ""]

\* no message is on its way
SendStart ==
  /\ sendPc = "idle"
  /\ sendI = 0
  /\ delivered = FALSE
  /\ listening = TRUE
  /\ runs = <<>>
  /\ response = NoResponse

LangImages == 1..MaxQueued

PairImages == 1..MaxQueued
\* a build before its first scan
NoScanYet ==
  [status |-> [i \in PairImages |-> ""], queue |-> <<>>, active |-> 0, dispatched |-> <<>>]

\* no document is looked at by both builds
PairStart ==
  /\ pairSize = [i \in PairImages |-> <<MinSizeCanvas, MinSizeCanvas>>]
  /\ pairAnswer = [i \in PairImages |-> "blocks"]
  /\ pairScans = 0
  /\ built = [v \in Variants |-> NoScanYet]
\* storage.local without a record for the domain
NoSettings == [source |-> "none", target |-> "none", auto |-> FALSE]
\* popup.js before its stored record is read: the defaults of the form
DefaultSelects == [source |-> "ja", target |-> "en", auto |-> FALSE]

\* no settings saved, no popup change, an empty document
LangStart ==
  /\ stored = NoSettings
  /\ selects = DefaultSelects
  /\ changes = 0
  /\ loadPc = "loaded"
  /\ present = {}
  /\ passed = [i \in LangImages |-> NoSettings]
  /\ langQueue = <<>>
  /\ langActive = 0
  /\ sent = <<>>
  /\ translateParams = <<>>

Init ==
  /\ LangStart
  /\ SendStart
  /\ PairStart
  /\ TranslatorStart
  /\ model_downloaded = FALSE
  /\ OcrStart
  /\ DataStart
  /\ RenderStart
  /\ variant \in Variants
  /\ size \in [Images -> Sizes(MinSize)]
  /\ status = [i \in Images |-> ""]
  /\ kids = [c \in Containers |-> IF c = 0 THEN [i \in Images |-> ImgNode(i)] ELSE <<>>]
  /\ border = [i \in Images |-> FALSE]
  /\ srcReplaced = [i \in Images |-> FALSE]
  /\ imageQueue = <<>>
  /\ activeProcessors = 0
  /\ tasks = <<>>
  /\ dispatched = <<>>
  /\ pc = [t \in TaskIds |-> "none"]
  /\ attempt = [t \in TaskIds |-> 0]
  /\ trace = [t \in TaskIds |-> <<>>]
  /\ failedStep = [t \in TaskIds |-> "none"]
  /\ reply = [t \in TaskIds |-> NoReply]
  /\ tierErr = [t \in TaskIds |-> <<>>]
  /\ surviving = [t \in TaskIds |-> 0]
  /\ translated = [t \in TaskIds |-> 0]
  /\ blob = [t \in TaskIds |-> 0]
  /\ blobOk = [t \in TaskIds |-> TRUE]
  /\ listeners = [e \in {"onBeforeSendHeaders", "onHeadersReceived"} |-> 0]
  /\ translator = FALSE
  /\ tesseractWorker = FALSE

Next ==
  \/ scanAndTranslate
  \/ \E t \in TaskIds : SendRejected(t)
  \/ \E t \in TaskIds : RetryTimer(t)
  \/ \E t \in TaskIds : BgReceive(t)
  \/ \E t \in TaskIds, ok \in BOOLEAN : LoadTranslatorDone(t, ok)
  \/ \E t \in TaskIds, out \in {"ok"} \cup FetchFailures : Tier1Done(t, out)
  \/ \E t \in TaskIds, out \in {"ok"} \cup FetchFailures : Tier1PlainDone(t, out)
  \/ \E t \in TaskIds, out \in {"ok"} \cup FetchFailures : Tier2Done(t, out)
  \/ \E t \in TaskIds, out \in {"ok", "reject"} \cup FetchFailures : Tier3Done(t, out)
  \/ \E t \in TaskIds, ok \in BOOLEAN : BitmapDone(t, ok)
  \/ \E t \in TaskIds, ok \in BOOLEAN : InitOCRDone(t, ok)
  \/ \E t \in TaskIds, ok \in BOOLEAN : CompressDone(t, ok)
  \/ \E t \in TaskIds, n \in -1..MaxBlocks : OCRDone(t, n)
  \/ \E t \in TaskIds, ok \in BOOLEAN : TranslateDone(t, ok)
  \/ \E t \in TaskIds, ok \in BOOLEAN : FinalBitmapDone(t, ok)
  \/ \E t \in TaskIds, thrown \in -1..(MaxBlocks - 1) : HandleReply(t, thrown)
  \/ \E t \in TaskIds : RenderLoaded(t)
  \/ \E t \in TaskIds : RenderStuck(t)

\* every step but scanAndTranslate, which the user or the page load triggers
SystemNext ==
  \/ \E t \in TaskIds : SendRejected(t) \/ RetryTimer(t) \/ BgReceive(t)
  \/ \E t \in TaskIds, ok \in BOOLEAN :
       \/ LoadTranslatorDone(t, ok) \/ BitmapDone(t, ok) \/ InitOCRDone(t, ok)
       \/ CompressDone(t, ok) \/ TranslateDone(t, ok) \/ FinalBitmapDone(t, ok)
  \/ \E t \in TaskIds, out \in {"ok"} \cup FetchFailures :
       Tier1Done(t, out) \/ Tier1PlainDone(t, out) \/ Tier2Done(t, out)
  \/ \E t \in TaskIds, out \in {"ok", "reject"} \cup FetchFailures : Tier3Done(t, out)
  \/ \E t \in TaskIds, n \in -1..MaxBlocks : OCRDone(t, n)
  \/ \E t \in TaskIds, thrown \in -1..(MaxBlocks - 1) : HandleReply(t, thrown)
  \/ \E t \in TaskIds : RenderLoaded(t)

Spec == Init /\ [][Next]_vars

\* every message send, fetch, timer and engine call eventually settles, and an
\* image that can load does load
FairSpec == Spec /\ WF_vars(SystemNext)

\* --------------------------------------------- background: getTranslator
\* the content script before any scan, while only the background is looked at
IdleWith(v, shown) ==
  /\ variant = v
  /\ size = [i \in Images |-> shown]
  /\ status = [i \in Images |-> ""]
  /\ kids = [c \in Containers |-> IF c = 0 THEN [i \in Images |-> ImgNode(i)] ELSE <<>>]
  /\ border = [i \in Images |-> FALSE]
  /\ srcReplaced = [i \in Images |-> FALSE]
  /\ imageQueue = <<>>
  /\ activeProcessors = 0
  /\ tasks = <<>>
  /\ dispatched = <<>>
  /\ pc = [t \in TaskIds |-> "none"]
  /\ attempt = [t \in TaskIds |-> 0]
  /\ trace = [t \in TaskIds |-> <<>>]
  /\ failedStep = [t \in TaskIds |-> "none"]
  /\ reply = [t \in TaskIds |-> NoReply]
  /\ tierErr = [t \in TaskIds |-> <<>>]
  /\ surviving = [t \in TaskIds |-> 0]
  /\ translated = [t \in TaskIds |-> 0]
  /\ blob = [t \in TaskIds |-> 0]
  /\ blobOk = [t \in TaskIds |-> TRUE]
  /\ listeners = [e \in {"onBeforeSendHeaders", "onHeadersReceived"} |-> 0]
  /\ translator = FALSE
  /\ tesseractWorker = FALSE

IdleIn(v) == IdleWith(v, <<MinSizeOverlay, MinSizeOverlay>>)
ContentIdle == IdleIn("overlay")

\* who calls getTranslator: handleImagePipeline (PROCESS_IMAGE), checkModelStatus
\* (CHECK_MODEL_STATUS) and downloadModel (DOWNLOAD_MODEL)
CallerKinds == {"PROCESS_IMAGE", "CHECK_MODEL_STATUS", "DOWNLOAD_MODEL"}

getTranslatorAlwaysLoads(tr, tp, n) == [ret |-> 0, wait |-> n + 1, start |-> TRUE]

\* getTranslator() up to its return, with translator = tr, translatorPromise
\* = tp and n loads started before: the loaded translator is returned (ret),
\* or the promise of the load in flight (wait), or a load is started first
getTranslator(tr, tp, n) ==
  IF tr # 0 THEN [ret |-> tr, wait |-> 0, start |-> FALSE]
  ELSE IF tp = 0 THEN [ret |-> 0, wait |-> n + 1, start |-> TRUE]
  ELSE [ret |-> 0, wait |-> tp, start |-> FALSE]

\* caller c runs getTranslator(); keep: the caller awaits the result
\* (checkModelStatus does not, it only attaches a catch)
CallGetTranslator(c, keep) ==
  LET g == getTranslator(translatorRef, translatorPromise, loads)
  IN /\ g.start => loads < MaxLoads
     /\ loads' = IF g.start THEN loads + 1 ELSE loads
     /\ translatorPromise' = IF g.start THEN g.wait ELSE translatorPromise
     /\ loadState' = IF g.start THEN [loadState EXCEPT ![g.wait] = "pipeline"] ELSE loadState
     /\ callerPc' = [callerPc EXCEPT ![c] = IF keep /\ g.ret = 0 THEN "awaiting" ELSE "idle"]
     /\ awaited' = [awaited EXCEPT ![c] = IF keep /\ g.ret = 0 THEN g.wait ELSE 0]
     /\ callerGot' = [callerGot EXCEPT ![c] = IF keep /\ g.ret # 0 THEN g.ret ELSE callerGot[c]]
     /\ UNCHANGED <<translatorRef, model_downloaded>>

\* a message arrives and its handler runs up to its first await
Call(c, kind) ==
  /\ callerPc[c] = "idle"
  /\ IF kind = "CHECK_MODEL_STATUS"
     THEN /\ callerPc' = [callerPc EXCEPT ![c] =
                            IF translatorRef # 0 THEN "idle" ELSE "checkStorage"]
          /\ UNCHANGED <<translatorRef, translatorPromise, loadState, loads,
                         model_downloaded, awaited, callerGot>>
     ELSE CallGetTranslator(c, TRUE)
  /\ UNCHANGED outsideTranslator

\* checkModelStatus: storage.local.get settles; a model downloaded before is
\* loaded silently
StorageGot(c) ==
  /\ callerPc[c] = "checkStorage"
  /\ IF model_downloaded
     THEN CallGetTranslator(c, FALSE)
     ELSE /\ callerPc' = [callerPc EXCEPT ![c] = "idle"]
          /\ UNCHANGED <<translatorRef, translatorPromise, loadState, loads,
                         model_downloaded, awaited, callerGot>>
  /\ UNCHANGED outsideTranslator

\* load k: `await pipeline(...)` settles; on success translator = t, then the
\* storage write is awaited; on failure the catch resets translatorPromise
PipelineDone(k, ok) ==
  /\ loadState[k] = "pipeline"
  /\ IF ok
     THEN /\ translatorRef' = k
          /\ loadState' = [loadState EXCEPT ![k] = "storing"]
          /\ UNCHANGED translatorPromise
     ELSE /\ translatorPromise' = 0
          /\ loadState' = [loadState EXCEPT ![k] = "rejected"]
          /\ UNCHANGED translatorRef
  /\ UNCHANGED <<loads, model_downloaded, callerPc, awaited, callerGot>>
  /\ UNCHANGED outsideTranslator

\* load k: `await storage.local.set({model_downloaded: true})` settles; when
\* it rejects the same catch runs, with translator already assigned
StoreDone(k, ok) ==
  /\ loadState[k] = "storing"
  /\ IF ok
     THEN /\ model_downloaded' = TRUE
          /\ loadState' = [loadState EXCEPT ![k] = "resolved"]
          /\ UNCHANGED translatorPromise
     ELSE /\ translatorPromise' = 0
          /\ loadState' = [loadState EXCEPT ![k] = "rejected"]
          /\ UNCHANGED model_downloaded
  /\ UNCHANGED <<translatorRef, loads, callerPc, awaited, callerGot>>
  /\ UNCHANGED outsideTranslator

\* the promise a caller awaits has settled: the caller goes on with the
\* translator, or with the error
Settle(c) ==
  /\ callerPc[c] = "awaiting"
  /\ loadState[awaited[c]] \in {"resolved", "rejected"}
  /\ callerPc' = [callerPc EXCEPT ![c] = "idle"]
  /\ awaited' = [awaited EXCEPT ![c] = 0]
  /\ callerGot' = [callerGot EXCEPT ![c] =
                     IF loadState[awaited[c]] = "resolved" THEN awaited[c] ELSE callerGot[c]]
  /\ UNCHANGED <<translatorRef, translatorPromise, loadState, loads, model_downloaded>>
  /\ UNCHANGED outsideTranslator

TranslatorInit ==
  /\ ContentIdle
  /\ LangStart
  /\ SendStart
  /\ PairStart
  /\ OcrStart
  /\ DataStart
  /\ RenderStart
  /\ TranslatorStart
  /\ model_downloaded \in BOOLEAN

TranslatorNext ==
  \/ \E c \in Callers, kind \in CallerKinds : Call(c, kind)
  \/ \E c \in Callers : StorageGot(c)
  \/ \E k \in Loads, ok \in BOOLEAN : PipelineDone(k, ok)
  \/ \E k \in Loads, ok \in BOOLEAN : StoreDone(k, ok)
  \/ \E c \in Callers : Settle(c)

TranslatorSpec == TranslatorInit /\ [][TranslatorNext]_vars

\* --------------------------------------------------- background: initOCR
\* initOCR(langCode) is called (by a pipeline in step "Initializing OCR") and
\* runs up to its first await: a worker of another language is terminated
\* first; without a worker one is created; a worker of the language asked for
\* is returned as it is, and the pipeline calls worker.recognize on it
InitOCRCall(i, lang) ==
  /\ ocrPc[i] = "idle"
  /\ ocrLang' = [ocrLang EXCEPT ![i] = lang]
  /\ IF workerRef # 0 /\ currentTesseractLang # lang
     THEN /\ ocrPc' = [ocrPc EXCEPT ![i] = "terminating"]
          /\ ocrTarget' = [ocrTarget EXCEPT ![i] = workerRef]
     ELSE /\ ocrPc' = [ocrPc EXCEPT ![i] = IF workerRef = 0 THEN "preflight" ELSE "recognizing"]
          /\ ocrTarget' = [ocrTarget EXCEPT ![i] = workerRef]
  /\ UNCHANGED <<workerRef, currentTesseractLang, alive, workerLang, made>>
  /\ UNCHANGED outsideOcr

\* `await tesseractWorker.terminate()` settles: the worker is gone and
\* tesseractWorker = null, then the preflight fetches start; when terminate
\* rejects initOCR rejects with it
TerminateDone(i, ok) ==
  /\ ocrPc[i] = "terminating"
  /\ IF ok
     THEN /\ alive' = alive \ {ocrTarget[i]}
          /\ workerRef' = 0
          /\ ocrPc' = [ocrPc EXCEPT ![i] = "preflight"]
     ELSE /\ ocrPc' = [ocrPc EXCEPT ![i] = "idle"]
          /\ UNCHANGED <<alive, workerRef>>
  /\ ocrTarget' = [ocrTarget EXCEPT ![i] = 0]
  /\ UNCHANGED <<currentTesseractLang, workerLang, made, ocrLang>>
  /\ UNCHANGED outsideOcr

\* `await Promise.allSettled([...])` settles (it never rejects): createWorker
\* is called
PreflightDone(i) ==
  /\ ocrPc[i] = "preflight"
  /\ ocrPc' = [ocrPc EXCEPT ![i] = "creating"]
  /\ UNCHANGED <<workerRef, currentTesseractLang, alive, workerLang, made, ocrLang,
                 ocrTarget>>
  /\ UNCHANGED outsideOcr

\* `await Tesseract.createWorker(tessLang, ...)` settles: the new worker is
\* assigned to tesseractWorker and its language to currentTesseractLang,
\* initOCR returns it and the pipeline calls worker.recognize on it; on
\* failure initOCR throws "Tesseract initialization failed"
CreateDone(i, ok) ==
  /\ ocrPc[i] = "creating"
  /\ IF ok
     THEN /\ made < MaxWorkers
          /\ made' = made + 1
          /\ alive' = alive \cup {made + 1}
          /\ workerLang' = [workerLang EXCEPT ![made + 1] = ocrLang[i]]
          /\ workerRef' = made + 1
          /\ currentTesseractLang' = ocrLang[i]
          /\ ocrPc' = [ocrPc EXCEPT ![i] = "recognizing"]
          /\ ocrTarget' = [ocrTarget EXCEPT ![i] = made + 1]
     ELSE /\ ocrPc' = [ocrPc EXCEPT ![i] = "idle"]
          /\ UNCHANGED <<made, alive, workerLang, workerRef, currentTesseractLang,
                         ocrTarget>>
  /\ UNCHANGED ocrLang
  /\ UNCHANGED outsideOcr

\* `await worker.recognize(blob, ...)` settles, with a result or an error
RecognizeDone(i) ==
  /\ ocrPc[i] = "recognizing"
  /\ ocrPc' = [ocrPc EXCEPT ![i] = "idle"]
  /\ ocrTarget' = [ocrTarget EXCEPT ![i] = 0]
  /\ UNCHANGED <<workerRef, currentTesseractLang, alive, workerLang, made, ocrLang>>
  /\ UNCHANGED outsideOcr

OcrInit ==
  /\ ContentIdle
  /\ LangStart
  /\ SendStart
  /\ PairStart
  /\ DataStart
  /\ RenderStart
  /\ TranslatorStart
  /\ model_downloaded = FALSE
  /\ OcrStart

OcrNext ==
  \/ \E i \in OcrCalls, lang \in TessLangs : InitOCRCall(i, lang)
  \/ \E i \in OcrCalls, ok \in BOOLEAN : TerminateDone(i, ok)
  \/ \E i \in OcrCalls : PreflightDone(i)
  \/ \E i \in OcrCalls, ok \in BOOLEAN : CreateDone(i, ok)
  \/ \E i \in OcrCalls : RecognizeDone(i)

OcrSpec == OcrInit /\ [][OcrNext]_vars

\* ------------------------------------------- background: blocks of one run
\* Text is a sequence of tokens, a token being a word or one blank, so that
\* trim and join are computed. A confidence is the exact quotient num / den.
\* A bbox whose coordinates are not all numbers is NoBbox; the coordinates of
\* every other bbox are 0 or more.
Blank == " "
NoBbox == [x0 |-> -1, y0 |-> -1, x1 |-> -1, y1 |-> -1]

RECURSIVE trimStart(_)
trimStart(s) == IF s # <<>> /\ Head(s) = Blank THEN trimStart(Tail(s)) ELSE s

RECURSIVE trimEnd(_)
trimEnd(s) ==
  IF s # <<>> /\ s[Len(s)] = Blank THEN trimEnd(SubSeq(s, 1, Len(s) - 1)) ELSE s

trim(s) == trimEnd(trimStart(s))

RECURSIVE join(_, _)
join(parts, joiner) ==
  IF parts = <<>> THEN <<>>
  ELSE IF Len(parts) = 1 THEN parts[1]
  ELSE parts[1] \o joiner \o join(Tail(parts), joiner)

RECURSIVE sum(_)
sum(confs) == IF confs = <<>> THEN 0 ELSE Head(confs) + sum(Tail(confs))

min(a, b) == IF a <= b THEN a ELSE b
max(a, b) == IF a >= b THEN a ELSE b

rowIsWord(r) == r.level = 5 /\ r.word_num > 0

\* a TSV row passes the checks of the row loop
rowValid(r) ==
  /\ r.level = 5
  /\ r.word_num > 0
  /\ r.conf >= 0
  /\ trim(r.text) # <<>>
  /\ r.width > 0
  /\ r.height > 0

rowKey(r) == <<r.page_num, r.block_num, r.par_num, r.line_num>>

rowBox(r) ==
  [x0 |-> r.left, y0 |-> r.top, x1 |-> r.left + r.width, y1 |-> r.top + r.height]

keepBox(a, b) == a

unionBox(a, b) ==
  [x0 |-> min(a.x0, b.x0), y0 |-> min(a.y0, b.y0),
   x1 |-> max(a.x1, b.x1), y1 |-> max(a.y1, b.y1)]

\* groups.get(key) / groups.set(key, ...) / existing.parts.push(...): groups is
\* the Map in insertion order
addRow(groups, r) ==
  IF \E g \in 1..Len(groups) : groups[g].key = rowKey(r)
  THEN [g \in 1..Len(groups) |->
          IF groups[g].key = rowKey(r)
          THEN [key |-> groups[g].key,
                parts |-> Append(groups[g].parts, trim(r.text)),
                confs |-> Append(groups[g].confs, r.conf),
                bbox |-> unionBox(groups[g].bbox, rowBox(r))]
          ELSE groups[g]]
  ELSE Append(groups, [key |-> rowKey(r), parts |-> <<trim(r.text)>>,
                       confs |-> <<r.conf>>, bbox |-> rowBox(r)])

RECURSIVE groupRows(_, _)
groupRows(rows, groups) ==
  IF rows = <<>> THEN groups
  ELSE groupRows(Tail(rows),
                 IF rowValid(Head(rows)) THEN addRow(groups, Head(rows)) ELSE groups)

lineBlock(v, joiner) ==
  [text |-> trim(join(v.parts, joiner)),
   confidence |-> [num |-> sum(v.confs),
                   den |-> IF Len(v.confs) = 0 THEN 1 ELSE Len(v.confs)],
   bbox |-> v.bbox]

\* the comparator of blocks.sort is negative
before(a, b) ==
  \/ a.bbox.y0 < b.bbox.y0
  \/ a.bbox.y0 = b.bbox.y0 /\ a.bbox.x0 < b.bbox.x0

RECURSIVE insertSorted(_, _)
insertSorted(sorted, b) ==
  IF sorted = <<>> THEN <<b>>
  ELSE IF before(b, Head(sorted)) THEN <<b>> \o sorted
  ELSE <<Head(sorted)>> \o insertSorted(Tail(sorted), b)

\* Array.prototype.sort is stable
RECURSIVE sortBlocks(_)
sortBlocks(blocks) ==
  IF blocks = <<>> THEN <<>>
  ELSE insertSorted(sortBlocks(SubSeq(blocks, 1, Len(blocks) - 1)), blocks[Len(blocks)])

\* the columns idx() is asked for
Columns ==
  {"level", "page_num", "block_num", "par_num", "line_num", "word_num",
   "left", "top", "width", "height", "conf", "text"}

parseTsvAnyHeader(tsv, joiner) ==
  LET groups == groupRows(tsv.rows, <<>>)
  IN sortBlocks([g \in 1..Len(groups) |-> lineBlock(groups[g], joiner)])

\* tsv.header: the column names of the first row; tsv.rows: the rows after it
parseTsvToLineBlocks(tsv, joiner) ==
  IF tsv.rows = <<>> \/ \E name \in Columns : name \notin tsv.header
  THEN <<>>
  ELSE LET groups == groupRows(tsv.rows, <<>>)
           blocks == SelectSeq([g \in 1..Len(groups) |-> lineBlock(groups[g], joiner)],
                               LAMBDA b : b.text # <<>>)
       IN sortBlocks(blocks)

joinerOf(lang) == IF lang = "ja" THEN <<>> ELSE <<Blank>>

selectWordsFirst(d, lang) ==
  IF d.words # <<>> THEN d.words
  ELSE IF d.lines # <<>> THEN d.lines
  ELSE IF d.blocks # <<>> THEN d.blocks
  ELSE parseTsvToLineBlocks(d.tsv, joinerOf(lang))

\* data.lines when it has entries, else data.words, else data.blocks, else
\* the blocks rebuilt from data.tsv
selectBlocks(d, lang) ==
  IF d.lines # <<>> THEN d.lines
  ELSE IF d.words # <<>> THEN d.words
  ELSE IF d.blocks # <<>> THEN d.blocks
  ELSE parseTsvToLineBlocks(d.tsv, joinerOf(lang))

notAboveMinConfidence(c) == c.num <= MIN_CONFIDENCE * c.den

\* confidence < MIN_CONFIDENCE
lowConfidence(c) == c.num < MIN_CONFIDENCE * c.den

\* the block passes the three checks of the loop body
survives(block) ==
  /\ ~lowConfidence(block.confidence)
  /\ trim(block.text) # <<>>
  /\ block.bbox # NoBbox

\* the loop body with skippedNoBbox++ in front of the bare continue
skipCounterEach(block) ==
  IF lowConfidence(block.confidence) THEN "skippedLowConfidence"
  ELSE IF trim(block.text) = <<>> THEN "skippedNoText"
  ELSE IF block.bbox = NoBbox THEN "skippedNoBbox"
  ELSE "none"

\* the counter the loop body increments for the block, "none" if it
\* increments none: `if (!bbox) continue;` leaves the body before
\* skippedNoBbox++
skipCounter(block) ==
  IF lowConfidence(block.confidence) THEN "skippedLowConfidence"
  ELSE IF trim(block.text) = <<>> THEN "skippedNoText"
  ELSE "none"

\* the counters sk after the loop went over blocks[from..to]
RECURSIVE countSkips(_, _, _, _)
countSkips(blocks, from, to, sk) ==
  IF from > to THEN sk
  ELSE LET c == skipCounter(blocks[from])
       IN countSkips(blocks, from + 1, to,
                     IF c = "none" THEN sk ELSE [sk EXCEPT ![c] = sk[c] + 1])

RECURSIVE nextSurvivor(_, _)
nextSurvivor(blocks, from) ==
  IF from > Len(blocks) \/ survives(blocks[from]) THEN from
  ELSE nextSurvivor(blocks, from + 1)

\* what the translator answers for a text
translation_text(text) == <<"translated">> \o text

\* part_000: the bbox of an OCR.space line is the union of its words
wordBox(word) ==
  [x0 |-> word.Left, y0 |-> word.Top,
   x1 |-> word.Left + word.Width, y1 |-> word.Top + word.Height]

RECURSIVE wordsBox(_)
wordsBox(words) ==
  IF Len(words) = 1 THEN wordBox(words[1])
  ELSE unionBox(wordBox(Head(words)), wordsBox(Tail(words)))

spaceBlock(line) ==
  LET bbox == wordsBox(line.Words)
  IN [text |-> line.LineText, bbox |-> bbox,
      isVertical |-> (bbox.y1 - bbox.y0) > (bbox.x1 - bbox.x0) * 2]

buildBlocks(lines) ==
  LET withWords == SelectSeq(lines, LAMBDA line : line.Words # <<>>)
  IN [p \in 1..Len(withWords) |-> spaceBlock(withWords[p])]

\* ---- the inputs of a run
SeqsUpTo(S, n) == UNION {[1..k -> S] : k \in 0..n}
SourceLangs == {"en", "ja"}
\* <<level, word_num, conf, text, width>> of a row: words of confidence 90, 80
\* and 0, which come at every corner
RowKinds ==
  {<<5, 1, 90, <<"Hello">>, 10>>, <<5, 1, 80, <<"World">>, 10>>,
   <<5, 1, 0, <<"World">>, 10>>}
\* a line-level row, a word of blanks, a word without width and a word of
\* confidence 100, which come at one corner
OddRowKinds ==
  {<<4, 0, -1, <<"Hello">>, 10>>, <<5, 1, 90, <<Blank>>, 10>>,
   <<5, 1, 90, <<"Hello">>, 0>>, <<5, 1, 100, <<"Hello">>, 10>>}
Corners == {<<0, 0>>, <<10, 0>>, <<0, 10>>}
TsvTexts == {<<"Hello">>, <<"World">>}
TsvRow(k, l, p) ==
  [level |-> k[1], page_num |-> 1, block_num |-> 1, par_num |-> 1, line_num |-> l,
   word_num |-> k[2], left |-> p[1], top |-> p[2], width |-> k[5], height |-> 10,
   conf |-> k[3], text |-> k[4]]
TsvRows ==
  {TsvRow(k, l, p) : k \in RowKinds, l \in 1..2, p \in Corners}
    \cup {TsvRow(k, l, <<20, 10>>) : k \in OddRowKinds, l \in 1..2}
\* tables with every column, and tables whose header lacks one column
Tsvs ==
  {[header |-> Columns, rows |-> r] : r \in SeqsUpTo(TsvRows, MaxRows)}
    \cup {[header |-> Columns \ {name}, rows |-> r] :
            name \in Columns,
            r \in SeqsUpTo({TsvRow(<<5, 1, 90, <<"Hello">>, 10>>, 1, <<0, 0>>),
                            TsvRow(<<5, 1, 80, <<"World">>, 10>>, 1, <<10, 0>>)},
                           MaxRows)}
LineTexts == {<<Blank>>, <<"Hello">>, <<Blank, "World">>}
LineBoxes ==
  {NoBbox, [x0 |-> 0, y0 |-> 50, x1 |-> 40, y1 |-> 60],
   [x0 |-> 20, y0 |-> 10, x1 |-> 60, y1 |-> 20],
   [x0 |-> 30, y0 |-> 70, x1 |-> 30, y1 |-> 80]}
Lines ==
  {[text |-> x, confidence |-> [num |-> c, den |-> 1], bbox |-> b] :
     x \in LineTexts, c \in {MIN_CONFIDENCE - 1, MIN_CONFIDENCE}, b \in LineBoxes}
\* one entry of data.lines, data.words, data.blocks that tells the three apart
ShapeBlock(word, top) ==
  [text |-> <<word>>, confidence |-> [num |-> 90, den |-> 1],
   bbox |-> [x0 |-> 0, y0 |-> top, x1 |-> 40, y1 |-> top + 10]]
\* results with lines only, with a table only, and with any of lines, words,
\* blocks and a table present or empty
RecognizerOutputs ==
  {[lines |-> l, words |-> <<>>, blocks |-> <<>>, tsv |-> NoTsv] :
     l \in SeqsUpTo(Lines, MaxLines)}
    \cup {[lines |-> <<>>, words |-> <<>>, blocks |-> <<>>, tsv |-> t] : t \in Tsvs}
    \cup {[lines |-> l, words |-> w, blocks |-> b, tsv |-> t] :
            l \in SeqsUpTo({ShapeBlock("line", 0)}, MaxLines),
            w \in SeqsUpTo({ShapeBlock("word", 20)}, MaxLines),
            b \in SeqsUpTo({ShapeBlock("block", 40)}, MaxLines),
            t \in {NoTsv,
                    [header |-> Columns,
                     rows |-> <<TsvRow(<<5, 1, 90, <<"Hello">>, 10>>, 1, <<0, 0>>)>>]}}
SpaceWord(left, top, height) ==
  [Left |-> left, Top |-> top, Width |-> 10, Height |-> height]
SpaceWords ==
  {<<>>, <<SpaceWord(0, 50, 10)>>, <<SpaceWord(0, 50, 10), SpaceWord(10, 50, 10)>>,
   <<SpaceWord(0, 10, 30)>>}
SpaceLines == {[LineText |-> x, Words |-> w] : x \in TsvTexts, w \in SpaceWords}
SpaceOutputs ==
  {[lines |-> l, words |-> <<>>, blocks |-> <<>>, tsv |-> NoTsv] :
     l \in SeqsUpTo(SpaceLines, MaxLines)}

outsideData == <<mainVars, translatorVars, ocrVars, renderVars, langVars, sendVars, pairVars>>

\* ---- background.js: the loop over ocrBlocks
\* the for loop runs from block `from` to the next translatorPipe call, or to
\* its end and the return
RunLoop(blocks, from) ==
  LET j == nextSurvivor(blocks, from)
  IN /\ skipped' = countSkips(blocks, from, IF j > Len(blocks) THEN Len(blocks) ELSE j - 1,
                              skipped)
     /\ IF j > Len(blocks)
        THEN /\ cursor' = 0
             /\ calls' = calls
             /\ dataPc' = "returned"
        ELSE /\ cursor' = j
             /\ calls' = Append(calls, <<j>>)
             /\ dataPc' = "translating"

SelectBlocks ==
  /\ variant = "overlay"
  /\ dataPc = "recognized"
  /\ ocrBlocks' = selectBlocks(data, sourceLang)
  /\ RunLoop(ocrBlocks', 1)
  /\ UNCHANGED <<sourceLang, data, translatedBlocks>>
  /\ UNCHANGED outsideData

TranslatorPipeDone(ok) ==
  /\ variant = "overlay"
  /\ dataPc = "translating"
  /\ IF ok
     THEN LET block == ocrBlocks[cursor]
              text == trim(block.text)
          IN /\ translatedBlocks' =
                  Append(translatedBlocks,
                         [text |-> translation_text(text), original |-> text,
                          bbox |-> block.bbox])
             /\ RunLoop(ocrBlocks, cursor + 1)
     ELSE /\ dataPc' = "failed"
          /\ UNCHANGED <<translatedBlocks, cursor, calls, skipped>>
  /\ UNCHANGED <<sourceLang, data, ocrBlocks>>
  /\ UNCHANGED outsideData

\* ---- part_000: blocks from the OCR.space lines, one DeepL call
BuildBlocks ==
  /\ variant = "canvas"
  /\ dataPc = "recognized"
  /\ ocrBlocks' = buildBlocks(data.lines)
  /\ IF ocrBlocks' = <<>>
     THEN /\ dataPc' = "returned"
          /\ calls' = calls
     ELSE /\ dataPc' = "translating"
          /\ calls' = Append(calls, [p \in 1..Len(ocrBlocks') |-> p])
  /\ UNCHANGED <<sourceLang, data, cursor, translatedBlocks, skipped>>
  /\ UNCHANGED outsideData

DeepLDone(out) ==
  /\ variant = "canvas"
  /\ dataPc = "translating"
  /\ IF out = "ok"
     THEN /\ translatedBlocks' =
               [index \in 1..Len(ocrBlocks) |->
                  [text |-> translation_text(ocrBlocks[index].text),
                   original |-> ocrBlocks[index].text,
                   bbox |-> ocrBlocks[index].bbox,
                   isVertical |-> ocrBlocks[index].isVertical]]
          /\ dataPc' = "returned"
     ELSE /\ translatedBlocks' = translatedBlocks
          /\ dataPc' = "failed"
  /\ UNCHANGED <<sourceLang, data, ocrBlocks, cursor, calls, skipped>>
  /\ UNCHANGED outsideData

DataInit ==
  /\ \E v \in Variants : IdleIn(v)
  /\ LangStart
  /\ SendStart
  /\ PairStart
  /\ RenderStart
  /\ TranslatorStart
  /\ model_downloaded = FALSE
  /\ OcrStart
  /\ sourceLang \in SourceLangs
  /\ data \in (IF variant = "overlay" THEN RecognizerOutputs ELSE SpaceOutputs)
  /\ ocrBlocks = <<>>
  /\ cursor = 0
  /\ translatedBlocks = <<>>
  /\ calls = <<>>
  /\ skipped = NoSkips
  /\ dataPc = "recognized"

DataNext ==
  \/ SelectBlocks
  \/ \E ok \in BOOLEAN : TranslatorPipeDone(ok)
  \/ BuildBlocks
  \/ \E out \in {"ok", "mismatch", "error"} : DeepLDone(out)

DataSpec == DataInit /\ [][DataNext]_vars

\* ------------------------------------------- content script: block geometry
\* A length in CSS px is the exact quotient num / den.
quot(n, d) == [num |-> n, den |-> d]
times(n, q) == [num |-> n * q.num, den |-> q.den]

unscaled(shown, native) == quot(1, 1)

\* img.width / originalWidth
scaleOf(shown, native) == quot(shown, native)

\* part_002: left, top, width, height of the div of a block
placeBlock(block, scaleX, scaleY) ==
  [left |-> times(block.bbox.x0, scaleX),
   top |-> times(block.bbox.y0, scaleY),
   width |-> times(block.bbox.x1 - block.bbox.x0, scaleX),
   height |-> times(block.bbox.y1 - block.bbox.y0, scaleY)]

\* part_001: ctx.fillRect(x0, y0, width, height), in pixels of the canvas
fillRect(block) ==
  [x |-> block.bbox.x0, y |-> block.bbox.y0,
   width |-> block.bbox.x1 - block.bbox.x0,
   height |-> block.bbox.y1 - block.bbox.y0]

\* part_001: the img element shows the canvas raster, canvas.width by
\* canvas.height pixels, in its own box of img.width by img.height
shownRect(rect, canvasSize, imgSize) ==
  LET scaleX == scaleOf(imgSize[1], canvasSize[1])
      scaleY == scaleOf(imgSize[2], canvasSize[2])
  IN [left |-> times(rect.x, scaleX), top |-> times(rect.y, scaleY),
      width |-> times(rect.width, scaleX), height |-> times(rect.height, scaleY)]

ShownSizes == {<<200, 150>>, <<400, 300>>, <<300, 100>>}
NativeSizes == {<<400, 300>>, <<200, 200>>}
ReplyBoxes ==
  {[x0 |-> 100, y0 |-> 100, x1 |-> 200, y1 |-> 150],
   [x0 |-> 0, y0 |-> 0, x1 |-> 30, y1 |-> 90],
   [x0 |-> 10, y0 |-> 20, x1 |-> 11, y1 |-> 21]}
ReplyBlocks(v) ==
  {IF v = "overlay"
   THEN [text |-> translation_text(<<"Hello">>), original |-> <<"Hello">>, bbox |-> b]
   ELSE [text |-> translation_text(<<"Hello">>), original |-> <<"Hello">>, bbox |-> b,
         isVertical |-> (b.y1 - b.y0) > (b.x1 - b.x0) * 2] : b \in ReplyBoxes}

outsideRender == <<mainVars, translatorVars, ocrVars, dataVars, langVars, sendVars, pairVars>>

\* part_002 overlayTranslations: one div per block
PlaceBlocks ==
  /\ variant = "overlay"
  /\ renderPc = "replied"
  /\ LET scaleX == scaleOf(size[1][1], imgNative[1])
         scaleY == scaleOf(size[1][2], imgNative[2])
     IN regions' = [k \in 1..Len(translatedBlocks) |->
                      placeBlock(translatedBlocks[k], scaleX, scaleY)]
  /\ renderPc' = "rendered"
  /\ UNCHANGED imgNative
  /\ UNCHANGED outsideRender

\* part_001 replaceImageWithTranslation, image.onload: one filled rectangle
\* per block on a canvas of the native size, which becomes the img's src
DrawBlocks ==
  /\ variant = "canvas"
  /\ renderPc = "replied"
  /\ regions' = [k \in 1..Len(translatedBlocks) |->
                   shownRect(fillRect(translatedBlocks[k]), imgNative, size[1])]
  /\ renderPc' = "rendered"
  /\ UNCHANGED imgNative
  /\ UNCHANGED outsideRender

RenderInit ==
  /\ \E v \in Variants, shown \in ShownSizes : IdleWith(v, shown)
  /\ LangStart
  /\ SendStart
  /\ PairStart
  /\ TranslatorStart
  /\ model_downloaded = FALSE
  /\ OcrStart
  /\ sourceLang = "en"
  /\ data = NoData
  /\ ocrBlocks = <<>>
  /\ cursor = 0
  /\ translatedBlocks \in SeqsUpTo(ReplyBlocks(variant), MaxRendered)
  /\ calls = <<>>
  /\ skipped = NoSkips
  /\ dataPc = "returned"
  /\ imgNative \in NativeSizes
  /\ regions = <<>>
  /\ renderPc = "replied"

RenderNext == PlaceBlocks \/ DrawBlocks

RenderSpec == RenderInit /\ [][RenderNext]_vars

\* ------------------------------------- settings: from the popup to the translator
\* a code that is undefined or the empty string: both are falsy
Missing == ""
\* JavaScript's null
Null == "null"

\* background.js tesseractLangMap, langMap, uiLangToNllb
tesseractLangMap ==
  [en |-> "eng", es |-> "spa", fr |-> "fra", it |-> "ita", ja |-> "jpn", de |-> "deu",
   pt |-> "por", ru |-> "rus", zh |-> "chi_sim"]
langMap ==
  [eng |-> "eng_Latn", fra |-> "fra_Latn", ita |-> "ita_Latn", spa |-> "spa_Latn",
   jpn |-> "jpn_Jpan"]
uiLangToNllb ==
  [en |-> "eng_Latn", fr |-> "fra_Latn", it |-> "ita_Latn", es |-> "spa_Latn",
   ja |-> "jpn_Jpan"]

\* toNllbLang without the lookup of Tesseract codes
toNllbLangUiOnly(code) ==
  IF code = Missing \/ code = "auto" THEN Null
  ELSE IF code \in DOMAIN uiLangToNllb THEN uiLangToNllb[code]
  ELSE Null

toNllbLang(code) ==
  IF code = Missing \/ code = "auto" THEN Null
  ELSE IF code \in DOMAIN uiLangToNllb THEN uiLangToNllb[code]
  ELSE IF code \in DOMAIN langMap THEN langMap[code]
  ELSE IF code \in DOMAIN tesseractLangMap /\ tesseractLangMap[code] \in DOMAIN langMap
       THEN langMap[tesseractLangMap[code]]
  ELSE Null

\* v || "eng_Latn"
orDefault(v) == IF v = Null \/ v = Missing THEN "eng_Latn" ELSE v

\* handleImagePipeline, step 3
buildTranslateParams(msg) ==
  [src_lang |-> orDefault(toNllbLang(msg.sourceLang)),
   tgt_lang |-> orDefault(toNllbLang(msg.targetLang))]

\* the codes a settings record may hold: none, "auto", UI codes with and
\* without a translator tag, Tesseract codes with and without one, and a code
\* no table knows
LangCodes == {Missing, "auto", "ja", "en", "de", "jpn", "deu", "xx"}
\* the options picked in the popup's two selects
SelectOptions == {"auto", "ja", "en"}
\* the records storage.local may hold at load: none, or one with two of the
\* codes and auto-run on
StoredPairs ==
  {<<Missing, Missing>>, <<"ja", "en">>, <<"jpn", "deu">>, <<"xx", "de">>, <<"auto", "jpn">>,
   <<"de", "xx">>}
StoredAtLoad ==
  {NoSettings} \cup {[source |-> p[1], target |-> p[2], auto |-> TRUE] : p \in StoredPairs}

\* popup.js DOMContentLoaded: the form after the stored record is read
popupLoad(st) ==
  IF st = NoSettings THEN DefaultSelects
  ELSE [source |-> IF st.source = Missing THEN "ja" ELSE st.source,
        target |-> IF st.target = Missing THEN "en" ELSE st.target,
        auto |-> st.auto]

\* processQueue's message with source and target exchanged
processImageMsgSwapped(e) ==
  [img |-> e.img, sourceLang |-> e.settings.target, targetLang |-> e.settings.source]

\* processQueue: the PROCESS_IMAGE message of a queue entry
processImageMsg(e) ==
  [img |-> e.img, sourceLang |-> e.settings.source, targetLang |-> e.settings.target]

\* processQueue on queue q with counter a: <<queue, counter, messages sent>>
langProcessQueue(q, a) ==
  IF a >= MAX_CONCURRENT \/ q = <<>> THEN <<q, a, <<>>>>
  ELSE <<Tail(q), a + 1, <<processImageMsg(Head(q))>>>>

\* scanAndTranslate's forEach over the images: those it pushes, in document order
RECURSIVE langScanLoop(_, _, _)
langScanLoop(i, imgs, pd) ==
  IF i > MaxQueued THEN <<>>
  ELSE IF i \in imgs /\ pd[i] = NoSettings
       THEN <<i>> \o langScanLoop(i + 1, imgs, pd)
       ELSE langScanLoop(i + 1, imgs, pd)

\* scanAndTranslate(settings), processQueue included
LangScan(settings) ==
  LET pushed == langScanLoop(1, present, passed)
      q == langQueue \o [k \in 1..Len(pushed) |-> [img |-> pushed[k], settings |-> settings]]
      r == langProcessQueue(q, langActive)
  IN /\ passed' = [i \in LangImages |->
                     IF \E k \in 1..Len(pushed) : pushed[k] = i THEN settings ELSE passed[i]]
     /\ langQueue' = r[1]
     /\ langActive' = r[2]
     /\ sent' = sent \o r[3]

outsideLang == <<mainVars, translatorVars, ocrVars, dataVars, renderVars, sendVars, pairVars>>

\* popup.js: a change event of one of the three inputs, then saveSettings
Change(id, value) ==
  /\ changes < MaxChanges
  /\ changes' = changes + 1
  /\ selects' = [selects EXCEPT ![id] = value]
  /\ selects'[id] # selects[id]
  /\ stored' = selects'
  /\ UNCHANGED <<loadPc, present, passed, langQueue, langActive, sent, translateParams>>
  /\ UNCHANGED outsideLang

\* popup.js startTranslation: saveSettings, then START_SCAN with its result,
\* a copy the content script's listener hands to scanAndTranslate
startTranslation ==
  /\ stored' = selects
  /\ LangScan(selects)
  /\ UNCHANGED <<selects, changes, loadPc, present, translateParams>>
  /\ UNCHANGED outsideLang

\* the content script's storage.local.get at load resolves
AutoRun ==
  /\ loadPc = "loading"
  /\ loadPc' = "loaded"
  /\ IF stored # NoSettings /\ stored.auto
     THEN LangScan(stored)
     ELSE UNCHANGED <<passed, langQueue, langActive, sent>>
  /\ UNCHANGED <<stored, selects, changes, present, translateParams>>
  /\ UNCHANGED outsideLang

\* the page appends an img element
ImgAdded(i) ==
  /\ present = 1..(i - 1)
  /\ present' = present \cup {i}
  /\ UNCHANGED <<stored, selects, changes, loadPc, passed, langQueue, langActive,
                 sent, translateParams>>
  /\ UNCHANGED outsideLang

\* the promise of the task in flight settles: finally, then processQueue
LangTaskDone ==
  /\ langActive > 0
  /\ LET r == langProcessQueue(langQueue, langActive - 1)
     IN /\ langQueue' = r[1]
        /\ langActive' = r[2]
        /\ sent' = sent \o r[3]
  /\ UNCHANGED <<stored, selects, changes, loadPc, present, passed, translateParams>>
  /\ UNCHANGED outsideLang

\* handleImagePipeline reaches step 3 for the next message
Translating ==
  /\ Len(translateParams) < Len(sent)
  /\ translateParams' =
       Append(translateParams, buildTranslateParams(sent[Len(translateParams) + 1]))
  /\ UNCHANGED <<stored, selects, changes, loadPc, present, passed, langQueue,
                 langActive, sent>>
  /\ UNCHANGED outsideLang

LangInit ==
  /\ ContentIdle
  /\ SendStart
  /\ PairStart
  /\ TranslatorStart
  /\ model_downloaded = FALSE
  /\ OcrStart
  /\ DataStart
  /\ RenderStart
  /\ stored \in StoredAtLoad
  /\ selects = popupLoad(stored)
  /\ changes = 0
  /\ loadPc = "loading"
  /\ present \in {1..n : n \in 0..MaxQueued}
  /\ passed = [i \in LangImages |-> NoSettings]
  /\ langQueue = <<>>
  /\ langActive = 0
  /\ sent = <<>>
  /\ translateParams = <<>>

LangNext ==
  \/ \E id \in {"source", "target"}, value \in SelectOptions : Change(id, value)
  \/ \E value \in BOOLEAN : Change("auto", value)
  \/ startTranslation
  \/ AutoRun
  \/ \E i \in LangImages : ImgAdded(i)
  \/ LangTaskDone
  \/ Translating

LangSpec == LangInit /\ [][LangNext]_vars

\* ------------------------------- PROCESS_IMAGE: one message and its answer
outsideSend == <<mainVars, translatorVars, ocrVars, dataVars, renderVars, langVars, pairVars>>

\* what the listener's pipelinePromise resolves to: the pipeline's result, or
\* the object its catch builds from the error e
listenerAnswer(out) ==
  CASE out = "result" -> [kind |-> "reply", success |-> TRUE, blocks |-> TRUE, error |-> ""]
    [] out = "Error" -> [kind |-> "reply", success |-> FALSE, blocks |-> FALSE,
                         error |-> "[step] message"]
    [] out = "NoMessage" -> [kind |-> "reply", success |-> FALSE, blocks |-> FALSE,
                             error |-> "Error"]
    [] OTHER -> [kind |-> "reply", success |-> FALSE, blocks |-> FALSE,
                 error |-> "Unknown error"]

\* how handleImagePipeline may end: with its result, throwing an Error with a
\* message, an Error without one, or a falsy value
PipelineOutcomes == {"result", "Error", "NoMessage", "Falsy"}

\* sendMessageWithRetry's catch: rethrow on the last attempt, else wait
afterRejection(i) == IF i = retries - 1 THEN "thrown" ELSE "waiting"

\* the listener gets the message of the attempt in flight and calls
\* handleImagePipeline
Received ==
  /\ sendPc = "sending"
  /\ listening
  /\ ~delivered
  /\ delivered' = TRUE
  /\ runs' = Append(runs, "running")
  /\ UNCHANGED <<sendPc, sendI, listening, response>>
  /\ UNCHANGED outsideSend

\* handleImagePipeline settles, pipelinePromise is the answer
PipelineSettled(out) ==
  /\ runs # <<>>
  /\ runs[Len(runs)] = "running"
  /\ runs' = [runs EXCEPT ![Len(runs)] = IF out = "result" THEN "returned" ELSE "threw"]
  /\ response' = listenerAnswer(out)
  /\ sendPc' = "resolved"
  /\ UNCHANGED <<sendI, delivered, listening>>
  /\ UNCHANGED outsideSend

\* the browser stops the background; what it was running stops with it
BackgroundStops ==
  /\ listening
  /\ listening' = FALSE
  /\ runs' = [k \in 1..Len(runs) |-> IF runs[k] = "running" THEN "gone" ELSE runs[k]]
  /\ UNCHANGED <<sendPc, sendI, delivered, response>>
  /\ UNCHANGED outsideSend

\* the background starts again and registers its listener
BackgroundStarts ==
  /\ ~listening
  /\ listening' = TRUE
  /\ UNCHANGED <<sendPc, sendI, delivered, runs, response>>
  /\ UNCHANGED outsideSend

\* browser.runtime.sendMessage rejects: there is no receiving end, or the
\* channel closed before the answer
AttemptRejected ==
  /\ sendPc = "sending"
  /\ ~listening
  /\ sendPc' = afterRejection(sendI)
  /\ UNCHANGED <<sendI, delivered, listening, runs, response>>
  /\ UNCHANGED outsideSend

\* the setTimeout(delay) fires, the loop sends again
NextAttempt ==
  /\ sendPc = "waiting"
  /\ sendPc' = "sending"
  /\ sendI' = sendI + 1
  /\ delivered' = FALSE
  /\ UNCHANGED <<listening, runs, response>>
  /\ UNCHANGED outsideSend

SendInit ==
  /\ \E v \in Variants : IdleIn(v)
  /\ TranslatorStart
  /\ model_downloaded = FALSE
  /\ OcrStart
  /\ DataStart
  /\ RenderStart
  /\ LangStart
  /\ PairStart
  /\ sendPc = "sending"
  /\ sendI = 0
  /\ delivered = FALSE
  /\ listening \in BOOLEAN
  /\ runs = <<>>
  /\ response = NoResponse

SendNext ==
  \/ Received
  \/ \E out \in PipelineOutcomes : PipelineSettled(out)
  \/ BackgroundStops
  \/ BackgroundStarts
  \/ AttemptRejected
  \/ NextAttempt

SendSpec == SendInit /\ [][SendNext]_vars

\* ------------------------------------- the two content scripts side by side
outsidePair == <<mainVars, translatorVars, ocrVars, dataVars, renderVars, langVars, sendVars>>

\* the size below which scanAndTranslate of build v skips an image
minSizeOf(v) == IF v = "overlay" THEN MinSizeOverlay ELSE MinSizeCanvas

\* processQueue() of a build
pairProcessQueue(b) ==
  LET r == processQueue(b.queue, b.active)
  IN [b EXCEPT !.queue = r.queue, !.active = r.active,
               !.dispatched = b.dispatched \o r.started]

\* scanAndTranslate's forEach from image i on, for a build in state b
RECURSIVE pairScanLoop(_, _, _)
pairScanLoop(i, least, b) ==
  IF i > MaxQueued THEN b
  ELSE IF skipImage(pairSize[i][1], pairSize[i][2], b.status[i], least)
       THEN pairScanLoop(i + 1, least, b)
       ELSE pairScanLoop(i + 1, least,
                         [b EXCEPT !.status[i] = "queued", !.queue = Append(b.queue, i)])

\* scanAndTranslate(settings) of build v
pairScan(v, b) == pairProcessQueue(pairScanLoop(1, minSizeOf(v), b))

\* the promise chain of the task in flight, once the background has answered:
\* .then or .catch sets the status, .finally runs processQueue
pairSettle(b) ==
  IF b.active = 0 THEN b
  ELSE LET i == b.dispatched[Len(b.dispatched)]
           st == IF pairAnswer[i] = "blocks" THEN "done" ELSE ""
       IN pairProcessQueue([b EXCEPT !.status[i] = st, !.active = b.active - 1])

\* the sizes an image may have, around the two thresholds
PairSizes ==
  {<<MinSizeOverlay - 1, MinSizeCanvas>>, <<MinSizeOverlay, MinSizeOverlay>>,
   <<MinSizeCanvas, MinSizeCanvas - 1>>, <<MinSizeCanvas, MinSizeCanvas>>}

\* the popup or the page load starts a scan, in both builds
PairScan ==
  /\ pairScans < MaxScans
  /\ pairScans' = pairScans + 1
  /\ built' = [v \in Variants |-> pairScan(v, built[v])]
  /\ UNCHANGED <<pairSize, pairAnswer>>
  /\ UNCHANGED outsidePair

\* the background answers the task in flight, in both builds
PairSettle ==
  /\ \E v \in Variants : built[v].active > 0
  /\ built' = [v \in Variants |-> pairSettle(built[v])]
  /\ UNCHANGED <<pairSize, pairAnswer, pairScans>>
  /\ UNCHANGED outsidePair

PairInit ==
  /\ ContentIdle
  /\ TranslatorStart
  /\ model_downloaded = FALSE
  /\ OcrStart
  /\ DataStart
  /\ RenderStart
  /\ LangStart
  /\ SendStart
  /\ pairSize \in [PairImages -> PairSizes]
  /\ pairAnswer \in [PairImages -> {"blocks", "empty", "error"}]
  /\ pairScans = 0
  /\ built = [v \in Variants |-> NoScanYet]

PairNext == PairScan \/ PairSettle

PairSpec == PairInit /\ [][PairNext]_vars

\* ------------------------------------------------------------- predicates
Pushed == 1..Len(tasks)
InFlight(t) == pc[t] \notin {"none", "queued", "done", "failed"}
Terminal(t) == pc[t] \in {"done", "failed"}
Count(s, x) == Cardinality({p \in 1..Len(s) : s[p] = x})
TierTokens(s) == SelectSeq(s, LAMBDA x : x \in {"tier1", "tier2", "tier3"})
\* the nodes of task t that are in the document tree
ScaffoldOf(t) ==
  {c \in Containers : \E p \in 1..Len(kids[c]) :
     \/ kids[c][p] \in {WrapperNode(t), IndicatorNode(t)}
     \/ kids[c][p].kind = "text" /\ kids[c][p].id[1] = t}

\* ------------------------------------------------------------------ C1
\* C1: with MAX_CONCURRENT = 1 at most one task is dispatched and unfinished
\* at any time, and every task dispatched before the latest one has reached a
\* terminal state (done or failed)
C1_OneAtATime ==
  /\ Cardinality({t \in TaskIds : InFlight(t)}) <= 1
  /\ \A p \in 1..(Len(dispatched) - 1) : Terminal(dispatched[p])

\* the second task is in flight, the first is over, a third waits
C1_Witness ==
  /\ Len(dispatched) = 2
  /\ InFlight(dispatched[2])
  /\ Terminal(dispatched[1])
  /\ imageQueue # <<>>

\* ------------------------------------------------------------------ C2
\* C2: every task that enters imageQueue eventually reaches a terminal state
\* (done or failed), and again and again the queue is empty with
\* activeProcessors = 0, whatever the background call and the rendering do
C2_EveryTaskEnds ==
  /\ \A t \in TaskIds : (pc[t] = "queued") ~> Terminal(t)
  /\ []<>(imageQueue = <<>> /\ activeProcessors = 0)

\* ------------------------------------------------------------------ C3
\* C3: tasks are dispatched in the order they were pushed: when a task has
\* been dispatched, every task pushed before it was dispatched earlier
C3_FIFO ==
  \A q \in 1..Len(dispatched) :
    \A a \in 1..(dispatched[q] - 1) : \E p \in 1..(q - 1) : dispatched[p] = a

\* three tasks were dispatched, the last one pushed by a later scan than the first
C3_Witness ==
  /\ Len(dispatched) >= 3
  /\ \E a \in Pushed : a > 1 /\ tasks[a].img = tasks[1].img

\* ------------------------------------------------------------------ C4
StageOf(tok) == IF tok \in {"tier1", "tier2", "tier3"} THEN "Fetching Image" ELSE tok

C4_Aborted ==
  \A t \in TaskIds :
    failedStep[t] # "none" =>
      /\ pc[t] = "Replied"
      /\ ~reply[t].success
      /\ trace[t] # <<>>
      /\ StageOf(trace[t][Len(trace[t])]) = failedStep[t]

C4_Step ==
  \A t \in TaskIds :
    (pc[t] = "Replied" /\ failedStep[t] # "none" /\ pc'[t] # "Replied") =>
      /\ pc'[t] = "failed"
      /\ imageQueue # <<>> =>
           /\ imageQueue' = Tail(imageQueue)
           /\ pc'[Head(imageQueue).wrapper] = "Sending"
      /\ \A u \in TaskIds \ {t} :
           \/ pc'[u] = pc[u]
           \/ imageQueue # <<>> /\ u = Head(imageQueue).wrapper
      /\ \A i \in Images \ {tasks[t].img} :
           /\ status'[i] = status[i]
           /\ border'[i] = border[i]
           /\ srcReplaced'[i] = srcReplaced[i]

\* C4: when a stage of the pipeline fails for a task, the stage that failed is
\* the last stage started for it; when its reply is handled only that task
\* ends as failed, the other tasks and images stay as they are, and the head
\* of the queue is dispatched
C4_StageFailureIsLocal == []C4_Aborted /\ [][C4_Step]_vars

\* recognition failed for a task while others wait in the queue
C4_Witness ==
  \E t \in TaskIds :
    pc[t] = "Replied" /\ failedStep[t] = "Running OCR" /\ imageQueue # <<>>

\* ------------------------------------------------------------------ C5
C5_Step ==
  \A t \in TaskIds :
    (pc[t] # "failed" /\ pc'[t] = "failed") =>
      LET i == tasks[t].img
      IN /\ status'[i] = ""
         /\ Len(kids'[0]) = NumImages
         /\ kids'[0][i] = ImgNode(i)
         /\ ScaffoldOf(t)' = {}
         /\ ~srcReplaced'[i]
         /\ ~border'[i]
         /\ ~skipImage(size[i][1], size[i][2], status'[i], MinSize)

C6_RescanEnqueuesNothing == [][tasks # <<>> => tasks' = tasks]_vars

\* C6, amended: a scan enqueues an image that was enqueued before only when
\* every earlier task of that image has failed; an image whose task is
\* queued, in flight or done is not enqueued again
C6_RescanOnlyAfterFailure ==
  [][\A p \in (Len(tasks) + 1)..Len(tasks') :
       \A u \in Pushed : tasks[u].img = tasks'[p].img => pc[u] = "failed"]_vars

\* an image was enqueued a second time while another image is done
C6_Witness ==
  /\ \E u, v \in Pushed : u < v /\ tasks[u].img = tasks[v].img
  /\ \E i \in Images : status[i] = "done"

\* ------------------------------------------------------------------ C7
C7_OneLiveTask ==
  \A i \in Images :
    Cardinality({t \in Pushed : tasks[t].img = i /\ ~Terminal(t)}) <= 1

C7_Step ==
  \A p \in (Len(tasks) + 1)..Len(tasks') :
    LET i == tasks'[p].img
    IN /\ status[i] = ""
       /\ size[i][1] >= MinSize
       /\ size[i][2] >= MinSize

\* C7: every image pushed onto imageQueue had an empty status marker and a
\* width and height at or above the threshold when the scan ran, and no image
\* ever has two tasks that are queued or in flight
C7_NoDoubleEnqueue == []C7_OneLiveTask /\ [][C7_Step]_vars

\* one image is done, one is queued, and an image below the height threshold
\* was left alone
C7_Witness ==
  /\ \E i \in Images : status[i] = "done"
  /\ \E i \in Images : status[i] = "queued"
  /\ \E i \in Images : size[i][2] < MinSize /\ status[i] = "" /\ kids[0][i] = ImgNode(i)

\* ------------------------------------------------------------------ C8
C8_Tiers ==
  \A t \in TaskIds :
    /\ Count(trace[t], "tier1") <= 1
    /\ Count(trace[t], "tier2") <= 1
    /\ Count(trace[t], "tier3") <= 1
    /\ (Len(tierErr[t]) >= 2 /\ tierErr[t][1].tier = 1 /\ tierErr[t][2].tier = 2)
         => Count(trace[t], "tier3") = 1
    /\ blob[t] = 3 =>
         /\ TierTokens(trace[t]) = <<"tier1", "tier2", "tier3">>
         /\ failedStep[t] # "Fetching Image"
    /\ failedStep[t] = "Fetching Image" =>
         /\ ~reply[t].success
         /\ blob[t] = 0
         /\ Len(tierErr[t]) = 3
         /\ TierTokens(trace[t]) = <<"tier1", "tier2", "tier3">>

C8_Step ==
  \A t \in TaskIds :
    (pc[t] = "Tier3" /\ pc'[t] # "Tier3") =>
      \/ blob'[t] = 3 /\ pc'[t] = afterFetchPc /\ failedStep'[t] = "none"
      \/ pc'[t] = "Replied" /\ failedStep'[t] = "Fetching Image"

\* C8: when tier 1 and tier 2 have failed tier 3 is invoked once; when it
\* succeeds the pipeline goes on with its bytes, when it fails the pipeline
\* fails in the fetch step; no tier is attempted twice
C8_FetchFallback == []C8_Tiers /\ [][C8_Step]_vars

\* the relayed fetch served the image
C8_Witness == \E t \in TaskIds : blob[t] = 3 /\ pc[t] = afterFetchPc

\* ------------------------------------------------------------------ C9
TierOfPc(p) == CASE p \in {"Tier1", "Tier1Plain"} -> 1 [] p = "Tier2" -> 2 [] p = "Tier3" -> 3 [] OTHER -> 0

\* C9: the tiers start in the order 1, 2, 3, a tier starts only when all
\* tiers before it have failed, no tier starts after the one that served the
\* bytes, and the only fetch error a reply carries is the error of tier 3
C9_TierOrder ==
  \A t \in TaskIds :
    LET tt == TierTokens(trace[t])
    IN /\ tt = SubSeq(<<"tier1", "tier2", "tier3">>, 1, Len(tt))
       /\ TierOfPc(pc[t]) > 0 =>
            /\ Len(tt) = TierOfPc(pc[t])
            /\ Len(tierErr[t]) = Len(tt) - 1
            /\ \A p \in 1..Len(tierErr[t]) : tierErr[t][p].tier = p
       /\ blob[t] > 0 => Len(tt) = blob[t]
       /\ failedStep[t] = "Fetching Image" =>
            /\ reply[t].error.detail = tierErr[t][3]
            /\ reply[t].error.detail.tier = 3
       /\ failedStep[t] # "Fetching Image" => reply[t].error.detail.tier = 0

\* all three tiers failed and the reply carries the error of the relayed fetch
C9_Witness ==
  \E t \in TaskIds :
    /\ pc[t] = "Replied"
    /\ failedStep[t] = "Fetching Image"
    /\ reply[t].error.detail = [tier |-> 3, kind |-> "network"]
    /\ tierErr[t][1].kind = "status"

\* ------------------------------------------------------------------ C10
\* C10: whenever no referrer-spoofed fetch is in flight, no webRequest
\* listener installed by fetchImageWithReferrer is registered
C10_NoListenerLeft ==
  (\A t \in TaskIds : pc[t] # "Tier1") =>
    (listeners["onBeforeSendHeaders"] = 0 /\ listeners["onHeadersReceived"] = 0)

\* ------------------------------------------------------------------ C11
C11_Step ==
  \A t \in TaskIds :
    (TierOfPc(pc[t]) > 0 /\ pc'[t] # pc[t]) =>
      LET tier == TierOfPc(pc[t])
      IN \/ /\ blob'[t] = tier
            /\ blobOk'[t]
            /\ pc'[t] = afterFetchPc
            /\ tierErr'[t] = <<>>
         \/ /\ blob'[t] = 0
            /\ Len(tierErr'[t]) = Len(tierErr[t]) + 1
            /\ SubSeq(tierErr'[t], 1, Len(tierErr[t])) = tierErr[t]
            /\ tierErr'[t][Len(tierErr'[t])].tier = tier
            /\ tierErr'[t][Len(tierErr'[t])].kind \in FetchFailures \cup {"reject"}
            /\ IF tier < 3
               THEN pc'[t] = nextTier(tier)
               ELSE pc'[t] = "Replied" /\ failedStep'[t] = "Fetching Image"

\* C11: when the fetch of a tier settles, either the response was a success
\* and its bytes go on to the next stage, or the tier has failed with a
\* network error or a non-success status and the next tier starts (after tier
\* 3: the pipeline fails in the fetch step); the bytes of a non-success
\* response are never taken, also not by tier 1 without a page URL
C11_TierFailureMovesOn == [][C11_Step]_vars

\* ------------------------------------------------------------------ C12
\* C12: the failure message the pipeline reports for a task carries the step
\* tag `[<step>]` of the stage that was running when the failure occurred, in
\* both builds
C12_FailureIsTagged ==
  \A t \in TaskIds :
    (pc[t] = "Replied" /\ failedStep[t] # "none") =>
      /\ ~reply[t].success
      /\ reply[t].error.step = failedStep[t]

\* ------------------------------------------------------------------ C13
\* the pipeline side: a recognition that leaves no block ends the run as a
\* success with an empty block list
C13_PipelineStep ==
  \A t \in TaskIds :
    (pc[t] = "RunningOCR" /\ pc'[t] = "Replied" /\ failedStep'[t] = "none") =>
      /\ surviving'[t] = 0
      /\ reply'[t].success
      /\ reply'[t].blocks = 0

\* the scheduler side: handling such a reply does not fail the task
C13_SchedulerStep ==
  \A t \in TaskIds :
    (pc[t] = "Replied" /\ reply[t].success /\ reply[t].blocks = 0 /\ pc'[t] # "Replied") =>
      /\ pc'[t] # "failed"
      /\ status'[tasks[t].img] # ""
      /\ kids'[0][tasks[t].img] # ImgNode(tasks[t].img)

C13_PipelineSide == [][C13_PipelineStep]_vars

\* C13: a task whose recognition yields zero surviving blocks is a successful
\* pipeline run with zero blocks, and the scheduler does not put its image
\* through the failure path (status reset, scaffolding unwound)
C13_NoTextIsNotFailure == [][C13_PipelineStep /\ C13_SchedulerStep]_vars

\* ------------------------------------------------------------------ C14
C14_Attempts ==
  \A t \in TaskIds :
    /\ attempt[t] \in 0..(retries - 1)
    /\ pc[t] = "RetryWait" => attempt[t] < retries - 1

C14_Step ==
  \A t \in TaskIds :
    /\ (pc[t] = "Sending" /\ pc'[t] = "RetryWait") =>
         attempt[t] < retries - 1 /\ attempt'[t] = attempt[t]
    /\ (pc[t] = "RetryWait" /\ pc'[t] # "RetryWait") =>
         pc'[t] = "Sending" /\ attempt'[t] = attempt[t] + 1
    /\ (pc[t] = "Sending" /\ pc'[t] = "failed") => attempt[t] = retries - 1
    /\ (pc[t] = "Sending" /\ attempt[t] = retries - 1) =>
         pc'[t] \in {"Sending", "failed", "LoadingTranslator", "Tier1", "Tier1Plain", "Tier2"}
    /\ (pc[t] \notin {"none", "queued", "Sending", "RetryWait"}) =>
         pc'[t] \notin {"Sending", "RetryWait"}

\* C14: a message is sent at most `retries` = 5 times; after a rejected attempt
\* that is not the last one the delay is waited and then the next attempt is
\* sent; there is no wait after the last attempt, whose rejection fails the
\* task; once a reply is on its way no further attempt is made
C14_BoundedRetry == []C14_Attempts /\ [][C14_Step]_vars

\* the fifth attempt is out, after four waits, while other tasks are queued
C14_Witness ==
  \E t \in TaskIds : pc[t] = "Sending" /\ attempt[t] = retries - 1 /\ imageQueue # <<>>

\* ------------------------------------------------------------------ C15
C15_OneModel ==
  /\ Cardinality({k \in Loads : loadState[k] \in {"pipeline", "storing"}}) <= 1
  /\ Cardinality({k \in Loads : loadState[k] \in {"storing", "resolved"} \/ translatorRef = k}) <= 1
  /\ \A c \in Callers : callerGot[c] # 0 => callerGot[c] = translatorRef
  /\ \A c \in Callers : awaited[c] # 0 =>
       (loadState[awaited[c]] = "rejected" \/ awaited[c] = translatorPromise)

C15_Step ==
  loads' # loads =>
    /\ loads' = loads + 1
    /\ translatorRef = 0
    /\ \A k \in 1..loads : loadState[k] = "rejected"

\* C15: at most one load is in flight, at most one load ever produces a
\* translator, every caller that receives a translator receives that one,
\* callers that come while a load is in flight await that load, and a load is
\* started only when nothing is loaded and every earlier load has failed
C15_LoadedOnce == []C15_OneModel /\ [][C15_Step]_vars

\* a first load failed, the second one succeeded, and two callers hold its
\* translator
C15_Witness ==
  /\ loads = 2
  /\ loadState[1] = "rejected"
  /\ \A c \in Callers : callerGot[c] = 2

\* ------------------------------------------------------------------ C16
\* C16: at every moment at most one recognizer worker exists, tesseractWorker
\* refers to it and currentTesseractLang is the language it was created for,
\* also when initOCR calls overlap
C16_OneWorker ==
  /\ Cardinality(alive) <= 1
  /\ workerRef # 0 => workerLang[workerRef] = currentTesseractLang
  /\ alive # {} => alive = {workerRef}

\* ------------------------------------------------------------------ C17
\* the rows of the table that are fragments of the line `key`, in row order
C17_Fragments(key) ==
  SelectSeq(data.tsv.rows, LAMBDA r : rowValid(r) /\ rowKey(r) = key)

C17_Keys ==
  {rowKey(data.tsv.rows[p]) :
     p \in {q \in 1..Len(data.tsv.rows) : rowValid(data.tsv.rows[q])}}

\* the blocks were rebuilt from a table that has every column
FromTsv ==
  /\ variant = "overlay"
  /\ dataPc # "recognized"
  /\ data.lines = <<>> /\ data.words = <<>> /\ data.blocks = <<>>
  /\ Columns \subseteq data.tsv.header

C17_Least(S) == CHOOSE m \in S : \A n \in S : m <= n
C17_Greatest(S) == CHOOSE m \in S : \A n \in S : m >= n

C17_IsMergeOf(b, key) ==
  LET fr == C17_Fragments(key)
      at == 1..Len(fr)
  IN /\ b.text = trim(join([p \in at |-> trim(fr[p].text)], joinerOf(sourceLang)))
     /\ b.confidence.num * Len(fr) = sum([p \in at |-> fr[p].conf]) * b.confidence.den
     /\ b.bbox.x0 = C17_Least({fr[p].left : p \in at})
     /\ b.bbox.y0 = C17_Least({fr[p].top : p \in at})
     /\ b.bbox.x1 = C17_Greatest({fr[p].left + fr[p].width : p \in at})
     /\ b.bbox.y1 = C17_Greatest({fr[p].top + fr[p].height : p \in at})

\* C17: when the blocks are rebuilt from the table, the lines (page, block,
\* paragraph, line) that have fragments and the blocks correspond one to one,
\* and the block of a line has the fragments' texts joined with the joiner in
\* row order as its text, the arithmetic mean of their confidences as its
\* confidence and the union of their boxes as its bbox
C17_TsvMerge ==
  FromTsv =>
    /\ Len(ocrBlocks) = Cardinality(C17_Keys)
    /\ \E f \in [C17_Keys -> 1..Len(ocrBlocks)] :
         /\ \A k1, k2 \in C17_Keys : f[k1] = f[k2] => k1 = k2
         /\ \A key \in C17_Keys : C17_IsMergeOf(ocrBlocks[f[key]], key)

\* 'Hello' (0,0,10,10) conf 90 and 'World' (10,0,20,10) conf 80 of one line,
\* space joiner: one block 'Hello World', confidence 170/2 = 85, bbox
\* (0,0,20,10)
C17_Witness ==
  /\ variant = "overlay"
  /\ dataPc # "recognized"
  /\ sourceLang = "en"
  /\ Columns \subseteq data.tsv.header
  /\ Len(data.tsv.rows) = 2
  /\ data.tsv.rows[1].text = <<"Hello">> /\ data.tsv.rows[1].conf = 90
  /\ data.tsv.rows[1].left = 0 /\ data.tsv.rows[1].top = 0
  /\ data.tsv.rows[2].text = <<"World">> /\ data.tsv.rows[2].conf = 80
  /\ data.tsv.rows[2].left = 10 /\ data.tsv.rows[2].top = 0
  /\ data.tsv.rows[1].line_num = data.tsv.rows[2].line_num
  /\ ocrBlocks = <<[text |-> <<"Hello", Blank, "World">>,
                    confidence |-> [num |-> 170, den |-> 2],
                    bbox |-> [x0 |-> 0, y0 |-> 0, x1 |-> 20, y1 |-> 10]]>>

\* ------------------------------------------------------------------ C18
C18_InOrder(a, b) ==
  \/ a.bbox.y0 < b.bbox.y0
  \/ a.bbox.y0 = b.bbox.y0 /\ a.bbox.x0 <= b.bbox.x0

C18_Sorted(blocks) ==
  \A p, q \in 1..Len(blocks) :
    (p < q /\ blocks[p].bbox # NoBbox /\ blocks[q].bbox # NoBbox) =>
      C18_InOrder(blocks[p], blocks[q])

\* C18: whatever the recognizer returned, the blocks the loop runs over are in
\* ascending order of y0, blocks with equal y0 in ascending order of x0
C18_BlocksSorted ==
  (variant = "overlay" /\ dataPc # "recognized") => C18_Sorted(ocrBlocks)

\* the same for the blocks rebuilt from the table only
C18_TsvBlocksSorted == FromTsv => C18_Sorted(ocrBlocks)

\* ------------------------------------------------------------------ C19
\* the indices of the blocks handed to the translator so far
Handed == UNION {{c[p] : p \in 1..Len(c)} : c \in {calls[n] : n \in 1..Len(calls)}}

\* the indices the loop has gone through
C19_Visited ==
  IF dataPc = "returned" THEN 1..Len(ocrBlocks) ELSE 1..cursor

C19_Usable(b) == trim(b.text) # <<>> /\ b.bbox # NoBbox

\* C19: a block with usable text and bbox that the loop has gone through was
\* handed on exactly when its confidence is at or above MIN_CONFIDENCE = 30;
\* so a block at 30 is kept and a block at 29 is dropped
C19_ConfidenceFilter ==
  (variant = "overlay" /\ dataPc # "recognized") =>
    \A j \in C19_Visited :
      C19_Usable(ocrBlocks[j]) =>
        (j \in Handed <=>
           ocrBlocks[j].confidence.num >= MIN_CONFIDENCE * ocrBlocks[j].confidence.den)

\* a run returned one block: of two usable blocks the one at 30 was
\* translated, the one at 29 was not
C19_Witness ==
  /\ variant = "overlay"
  /\ dataPc = "returned"
  /\ Len(ocrBlocks) = 2
  /\ C19_Usable(ocrBlocks[1]) /\ C19_Usable(ocrBlocks[2])
  /\ ocrBlocks[1].confidence = [num |-> 29, den |-> 1]
  /\ ocrBlocks[2].confidence = [num |-> 30, den |-> 1]
  /\ Handed = {2}
  /\ Len(translatedBlocks) = 1
  /\ translatedBlocks[1].original = trim(ocrBlocks[2].text)

\* ------------------------------------------------------------------ C20
\* the indices of the surviving blocks, in order: in the overlay build the
\* blocks that pass the filter, in the canvas build every block built
C20_Survivors ==
  SelectSeq([j \in 1..Len(ocrBlocks) |-> j],
            LAMBDA j : variant = "canvas" \/ survives(ocrBlocks[j]))

C20_TextOf(b) == IF variant = "overlay" THEN trim(b.text) ELSE b.text

C20_PerBlock ==
  dataPc # "recognized" =>
    /\ \A n \in 1..Len(calls) : calls[n] = <<C20_Survivors[n]>>
    /\ Len(calls) <= Len(C20_Survivors)
    /\ Len(calls) <= Len(translatedBlocks) + 1
    /\ dataPc = "returned" =>
         /\ Len(calls) = Len(C20_Survivors)
         /\ Len(translatedBlocks) = Len(C20_Survivors)
    /\ \A k \in 1..Len(translatedBlocks) :
         LET b == ocrBlocks[C20_Survivors[k]]
         IN /\ translatedBlocks[k].original = C20_TextOf(b)
            /\ translatedBlocks[k].bbox = b.bbox
            /\ translatedBlocks[k].text = translation_text(C20_TextOf(b))

\* C20: in both builds the n-th translator call passes the n-th surviving
\* block and nothing else, a call is made only when the calls before it have
\* returned, a returned run has made one call per surviving block, and the
\* k-th translated block carries the original text and bbox of the k-th
\* surviving block with the translation of that text
C20_OneCallPerBlock == C20_PerBlock

\* the same for the overlay build only
C20_OverlayOneCallPerBlock == variant = "overlay" => C20_PerBlock

\* ------------------------------------------------------------------ C21
C21_Equals(q, n, d) == q.den # 0 /\ q.num * d = n * q.den

\* C21: the region shown for a block has left = x0 * scaleX, top = y0 *
\* scaleY, width = (x1 - x0) * scaleX and height = (y1 - y0) * scaleY, with
\* scaleX the displayed width over the native width and scaleY the displayed
\* height over the native height
C21_RegionIsScaledBbox ==
  renderPc = "rendered" =>
    /\ Len(regions) = Len(translatedBlocks)
    /\ \A k \in 1..Len(regions) :
         LET b == translatedBlocks[k].bbox
             r == regions[k]
         IN /\ C21_Equals(r.left, b.x0 * size[1][1], imgNative[1])
            /\ C21_Equals(r.top, b.y0 * size[1][2], imgNative[2])
            /\ C21_Equals(r.width, (b.x1 - b.x0) * size[1][1], imgNative[1])
            /\ C21_Equals(r.height, (b.y1 - b.y0) * size[1][2], imgNative[2])

\* bbox (100,100,200,150) on an image shown at half its native size is shown
\* at (50,50), 50 wide and 25 high, in the overlay build
C21_Witness ==
  /\ variant = "overlay"
  /\ renderPc = "rendered"
  /\ size[1] = <<200, 150>> /\ imgNative = <<400, 300>>
  /\ \E k \in 1..Len(regions) :
       /\ translatedBlocks[k].bbox = [x0 |-> 100, y0 |-> 100, x1 |-> 200, y1 |-> 150]
       /\ C21_Equals(regions[k].left, 50, 1)
       /\ C21_Equals(regions[k].top, 50, 1)
       /\ C21_Equals(regions[k].width, 50, 1)
       /\ C21_Equals(regions[k].height, 25, 1)

\* ------------------------------------------------------------------ C22
\* C22: the src of the image of a task that is done was never replaced: the
\* translation is layered over the original image
C22_SrcUntouched ==
  \A t \in Pushed : pc[t] = "done" => ~srcReplaced[tasks[t].img]

\* the same for the overlay build only
C22_OverlaySrcUntouched == variant = "overlay" => C22_SrcUntouched

\* ------------------------------------------------------------------ C23
\* C23: the worker a pipeline's recognize call runs on exists for as long as
\* the call is running: no other pipeline terminates it meanwhile
C23_WorkerOutlivesRecognize ==
  \A i \in OcrCalls : ocrPc[i] = "recognizing" => ocrTarget[i] \in alive

\* ------------------------------------------------------------------ C24
C24_Rank(step) ==
  CASE step = "Loading Translator" -> 0
    [] step = "tier1" -> 1
    [] step = "tier2" -> 2
    [] step = "tier3" -> 3
    [] step \in {"Creating Bitmap", "Compressing Image"} -> 4
    [] step = "Initializing OCR" -> 5
    [] step = "Running OCR" -> 6
    [] step = "Translating" -> 7

C24_Started(t, step) == \E p \in 1..Len(trace[t]) : trace[t][p] = step

C24_Stages ==
  \A t \in TaskIds :
    /\ \A p, q \in 1..Len(trace[t]) :
         p < q => C24_Rank(trace[t][p]) < C24_Rank(trace[t][q])
    /\ C24_Started(t, "Running OCR") => blob[t] > 0
    /\ C24_Started(t, "Translating") => C24_Started(t, "Running OCR")
    /\ pc[t] = "Translating" => trace[t][Len(trace[t])] = "Translating"
    /\ (pc[t] = "Replied" /\ reply[t].success /\ reply[t].blocks > 0) =>
         /\ C24_Started(t, "Translating")
         /\ translated[t] = surviving[t]
         /\ reply[t].blocks = surviving[t]

C24_Step ==
  \A t \in TaskIds :
    /\ (pc'[t] = "Rendering" /\ pc[t] # "Rendering") =>
         pc[t] = "Replied" /\ reply[t].success /\ reply[t].blocks > 0
    /\ (pc'[t] = "done" /\ pc[t] # "done") =>
         \/ pc[t] = "Rendering"
         \/ pc[t] = "Replied" /\ reply[t].success /\ reply[t].blocks > 0

C25_RelaySends(t) == Count(trace[t], "tier3")

\* C25: when the relayed fetch fails because its message was rejected, the
\* message had been sent more than once: a rejected attempt is followed by
\* another attempt, and only the last attempt's failure fails the tier
C25_RelayIsRetried ==
  \A t \in TaskIds :
    (failedStep[t] = "Fetching Image" /\ reply[t].error.detail.kind = "reject") =>
      C25_RelaySends(t) >= 2

\* ------------------------------------------------------------------ C26
\* a word row that the claim lets into its group: positive confidence and
\* text left after trimming (and a box)
C26_Counts(r) ==
  /\ r.level = 5 /\ r.word_num > 0
  /\ r.conf > 0
  /\ trim(r.text) # <<>>
  /\ r.width > 0 /\ r.height > 0

C26_Fragments(key) ==
  SelectSeq(data.tsv.rows, LAMBDA r : C26_Counts(r) /\ rowKey(r) = key)

C26_Keys ==
  {rowKey(data.tsv.rows[p]) :
     p \in {q \in 1..Len(data.tsv.rows) : C26_Counts(data.tsv.rows[q])}}

C26_IsMergeOf(b, key) ==
  LET fr == C26_Fragments(key)
      at == 1..Len(fr)
  IN /\ b.text = trim(join([p \in at |-> trim(fr[p].text)], joinerOf(sourceLang)))
     /\ b.confidence.num * Len(fr) = sum([p \in at |-> fr[p].conf]) * b.confidence.den
     /\ b.bbox.x0 = C17_Least({fr[p].left : p \in at})
     /\ b.bbox.y0 = C17_Least({fr[p].top : p \in at})
     /\ b.bbox.x1 = C17_Greatest({fr[p].left + fr[p].width : p \in at})
     /\ b.bbox.y1 = C17_Greatest({fr[p].top + fr[p].height : p \in at})

\* C26: the blocks rebuilt from the table are the merges of the rows with
\* confidence above 0 and text left after trimming; a row with confidence 0
\* or less, or with blank text, adds nothing to the text, the mean confidence
\* or the bbox of a block, and does not stop the other rows
C26_NonPositiveRowsLeftOut ==
  FromTsv =>
    /\ Len(ocrBlocks) = Cardinality(C26_Keys)
    /\ \E f \in [C26_Keys -> 1..Len(ocrBlocks)] :
         /\ \A k1, k2 \in C26_Keys : f[k1] = f[k2] => k1 = k2
         /\ \A key \in C26_Keys : C26_IsMergeOf(ocrBlocks[f[key]], key)

\* the same for tables without a row of confidence exactly 0
C26_NegativeAndBlankRowsLeftOut ==
  (\A p \in 1..Len(data.tsv.rows) : data.tsv.rows[p].conf # 0) =>
    C26_NonPositiveRowsLeftOut

\* ------------------------------------------------------------------ C27
\* C27: every block handed to the translator, and every block returned for
\* rendering, has a bbox with x1 > x0 and y1 > y0; blocks with a missing or
\* degenerate bbox are dropped
C27_NoDegenerateBbox ==
  /\ \A j \in Handed :
       /\ ocrBlocks[j].bbox # NoBbox
       /\ ocrBlocks[j].bbox.x1 > ocrBlocks[j].bbox.x0
       /\ ocrBlocks[j].bbox.y1 > ocrBlocks[j].bbox.y0
  /\ \A k \in 1..Len(translatedBlocks) :
       /\ translatedBlocks[k].bbox.x1 > translatedBlocks[k].bbox.x0
       /\ translatedBlocks[k].bbox.y1 > translatedBlocks[k].bbox.y0

\* the same for the missing bbox only
C27_NoMissingBbox ==
  /\ \A j \in Handed : ocrBlocks[j].bbox # NoBbox
  /\ \A k \in 1..Len(translatedBlocks) : translatedBlocks[k].bbox # NoBbox

\* ------------------------------------------------------------------ C28
\* C28: when the header of the table lacks one of the twelve columns, the
\* normalizer returns no block, whatever the rows hold, and raises no error:
\* the run returns with an empty list and without a translator call
C28_MissingColumnGivesNothing ==
  (/\ variant = "overlay"
   /\ dataPc # "recognized"
   /\ data.lines = <<>> /\ data.words = <<>> /\ data.blocks = <<>>
   /\ ~(Columns \subseteq data.tsv.header)) =>
    /\ ocrBlocks = <<>>
    /\ dataPc = "returned"
    /\ translatedBlocks = <<>>
    /\ calls = <<>>

\* a table without the column conf and with two word rows was normalized
C28_Witness ==
  /\ variant = "overlay"
  /\ dataPc = "returned"
  /\ data.lines = <<>> /\ data.words = <<>> /\ data.blocks = <<>>
  /\ data.tsv.header = Columns \ {"conf"}
  /\ Len(data.tsv.rows) = 2
  /\ \A p \in 1..2 : rowValid(data.tsv.rows[p])
  /\ ocrBlocks = <<>>

C30_SelectionPriority ==
  (variant = "overlay" /\ dataPc # "recognized") =>
    /\ data.lines # <<>> => ocrBlocks = data.lines
    /\ (data.lines = <<>> /\ data.words # <<>>) => ocrBlocks = data.words
    /\ (data.lines = <<>> /\ data.words = <<>> /\ data.blocks # <<>>) =>
         ocrBlocks = data.blocks
    /\ (data.lines = <<>> /\ data.words = <<>> /\ data.blocks = <<>>) =>
         ocrBlocks = parseTsvToLineBlocks(data.tsv, joinerOf(sourceLang))

\* a result with words, coarse blocks and a table but no lines: the words
\* were taken
C30_Witness ==
  /\ variant = "overlay"
  /\ dataPc # "recognized"
  /\ data.lines = <<>>
  /\ data.words # <<>> /\ data.blocks # <<>> /\ data.tsv.rows # <<>>
  /\ ocrBlocks = data.words
  /\ ocrBlocks # data.blocks

\* ------------------------------------------------------------------ C31
\* the tag the tables of background.js give a code, eng_Latn if they give none
C31_Tag(code) ==
  CASE code \in {"en", "eng"} -> "eng_Latn"
    [] code \in {"fr", "fra"} -> "fra_Latn"
    [] code \in {"it", "ita"} -> "ita_Latn"
    [] code \in {"es", "spa"} -> "spa_Latn"
    [] code \in {"ja", "jpn"} -> "jpn_Jpan"
    [] OTHER -> "eng_Latn"

\* C31: for every source and target code a message can carry ("auto", a missing
\* code and codes without a translator tag among them) the translation
\* parameters are built: a code that resolves gives its tag, every other code
\* gives eng_Latn, and the step is never blocked
C31_ParamsAlwaysBuilt ==
  /\ \A k \in 1..Len(translateParams) :
       /\ translateParams[k].src_lang = C31_Tag(sent[k].sourceLang)
       /\ translateParams[k].tgt_lang = C31_Tag(sent[k].targetLang)
  /\ \A k \in 1..Len(sent) :
       /\ buildTranslateParams(sent[k]).src_lang = C31_Tag(sent[k].sourceLang)
       /\ buildTranslateParams(sent[k]).tgt_lang = C31_Tag(sent[k].targetLang)
  /\ Len(translateParams) < Len(sent) => ENABLED Translating

\* parameters were built for a message without codes, which got the default
\* tag, and for a later one whose codes resolve
C31_Witness ==
  /\ \E k \in 1..Len(translateParams) :
       /\ sent[k].sourceLang = Missing
       /\ translateParams[k].src_lang = "eng_Latn"
  /\ \E k \in 1..Len(translateParams) :
       /\ sent[k].sourceLang = "ja"
       /\ translateParams[k].src_lang = "jpn_Jpan"
       /\ translateParams[k].tgt_lang = "jpn_Jpan"

\* ------------------------------------------------------------------ C32
\* C32: on the same document, with the same scans and the same answers of the
\* background, the two content scripts have enqueued the same images,
\* dispatched them in the same order and given every image the same status
C32_SameOutcome == built["overlay"] = built["canvas"]

\* they agree on a document without an image that has a side from
\* MinSizeOverlay to MinSizeCanvas - 1
C32_BetweenThresholds(i) ==
  \E side \in 1..2 : pairSize[i][side] \in MinSizeOverlay..(MinSizeCanvas - 1)

C32_SameAwayFromThresholds ==
  (\A i \in PairImages : ~C32_BetweenThresholds(i)) => built["overlay"] = built["canvas"]

\* ------------------------------------------------------------------ C33
\* the dispatched tasks that ended
C33_Completed == {p \in 1..Len(dispatched) : Terminal(dispatched[p])}

\* C33: activeProcessors stays within 0..MAX_CONCURRENT and is the number of
\* tasks dispatched and not yet completed: the dispatches so far minus the
\* tasks that ended, done or failed
C33_CounterIsTasksInFlight ==
  /\ activeProcessors \in 0..MAX_CONCURRENT
  /\ activeProcessors = Cardinality({t \in TaskIds : InFlight(t)})
  /\ activeProcessors = Len(dispatched) - Cardinality(C33_Completed)

\* one task succeeded, one failed, and a third is in flight
C33_Witness ==
  /\ \E t \in TaskIds : pc[t] = "done"
  /\ \E t \in TaskIds : pc[t] = "failed"
  /\ \E t \in TaskIds : InFlight(t)
  /\ activeProcessors = 1

\* ------------------------------------------------------------------ C34
\* C34: for the task a message was sent for, handleImagePipeline is called at
\* most once, also when sendMessageWithRetry sends the message again
C34_PipelineRunsOnce == Len(runs) <= 1

\* as long as no attempt that the listener got was rejected, it is called at
\* most once
C34_OnceUnlessChannelCloses ==
  (\A k \in 1..Len(runs) : runs[k] # "gone") => Len(runs) <= 1

\* ------------------------------------------------------------------ C35
\* the pipeline of task t runs: the message was received, no answer yet
C35_Running(t) ==
  pc[t] \in {"LoadingTranslator", "Tier1", "Tier1Plain", "Tier2", "Tier3", "CreatingBitmap",
             "Compressing", "InitOCR", "RunningOCR", "Translating", "FinalBitmap"}

C35_IsAnswer(r) ==
  \/ r.success /\ r.blocks >= 0
  \/ ~r.success /\ r.error.detail.kind \notin {"", "unset"}

C35_Step ==
  \A t \in TaskIds :
    /\ reply'[t] # reply[t] =>
         \/ C35_Running(t) /\ reply[t] = NoReply /\ pc'[t] = "Replied"
         \/ pc[t] = "Replied" /\ reply'[t] = NoReply
    /\ C35_Running(t) /\ ~C35_Running(t)' => pc'[t] = "Replied" /\ reply'[t] # NoReply
    /\ C35_Running(t) /\ failedStep'[t] \notin {failedStep[t], "none"} =>
         pc'[t] = "Replied" /\ ~reply'[t].success

\* the steps of the pipeline of task t
C35_PipelineStep(t) ==
  \/ \E ok \in BOOLEAN :
       \/ LoadTranslatorDone(t, ok) \/ BitmapDone(t, ok) \/ InitOCRDone(t, ok)
       \/ CompressDone(t, ok) \/ TranslateDone(t, ok) \/ FinalBitmapDone(t, ok)
  \/ \E out \in {"ok"} \cup FetchFailures :
       Tier1Done(t, out) \/ Tier1PlainDone(t, out) \/ Tier2Done(t, out) \/ Tier3Done(t, out)
  \/ \E n \in -1..MaxBlocks : OCRDone(t, n)

C36_Dropped(reason) ==
  {k \in 1..Len(ocrBlocks) : skipCounterEach(ocrBlocks[k]) = reason}

C36_LoopEnded == variant = "overlay" /\ dataPc = "returned"

\* C36: when the loop over the recognizer's blocks has ended, the three skip
\* counters and the number of translated blocks add up to the number of
\* recognizer blocks, and each counter is the number of blocks dropped for
\* its reason
C36_CountersAddUp ==
  C36_LoopEnded =>
    /\ skipped.skippedLowConfidence + skipped.skippedNoText + skipped.skippedNoBbox
         + Len(translatedBlocks) = Len(ocrBlocks)
    /\ \A reason \in DOMAIN skipped : skipped[reason] = Cardinality(C36_Dropped(reason))

\* the counters of low confidence and of empty text are right, and with the
\* blocks without a box, which no counter counts, everything adds up
C36_TwoCountersAddUp ==
  C36_LoopEnded =>
    /\ skipped.skippedNoBbox = 0
    /\ skipped.skippedLowConfidence + skipped.skippedNoText
         + Cardinality(C36_Dropped("skippedNoBbox")) + Len(translatedBlocks) = Len(ocrBlocks)
    /\ \A reason \in {"skippedLowConfidence", "skippedNoText"} :
         skipped[reason] = Cardinality(C36_Dropped(reason))

\* ------------------------------------------------------------------ C37
\* C37: every PROCESS_IMAGE message carries the language pair of the
\* scanAndTranslate call that pushed its image, whatever was saved or scanned
\* since
C37_LanguagesAsPassed ==
  \A k \in 1..Len(sent) :
    LET settings == passed[sent[k].img]
    IN /\ settings # NoSettings
       /\ sent[k].sourceLang = settings.source
       /\ sent[k].targetLang = settings.target

\* two images were pushed by scans with different settings, both were sent,
\* and the settings saved now differ from those of the first
C37_Witness ==
  /\ Len(sent) = 2
  /\ passed[sent[1].img] # passed[sent[2].img]
  /\ stored.source # sent[1].sourceLang
  /\ stored.source # sent[2].sourceLang
====
